---- MODULE Spec2Model ----
(***************************************************************************)
(* Retrieval and correction-learning core of anycli.                       *)
(*                                                                         *)
(* The repository holds several independent implementations of the same    *)
(* subsystem.  One run of the model exercises one of them, chosen by       *)
(* `sys` in the initial state:                                             *)
(*   "cli"   crates/cuc-cli/src/command_learning.rs  (map-backed engine)   *)
(*   "repo"  src/infrastructure/repositories.rs      (map-backed repo)     *)
(*   "db"    src/command_learning.rs                 (appending engine)    *)
(*   "mem"   src/rag/vector_store.rs + src/rag/document_indexer.rs         *)
(*   "lvs"   src/local_vector_store.rs + src/local_document_indexer.rs     *)
(*   "split" the text splitter of src/local_document_indexer.rs alone      *)
(*                                                                         *)
(* Strings are sequences of one-character strings (ASCII).  Option<T> is   *)
(* a sequence of length 0 (None) or 1 (Some).                              *)
(***************************************************************************)
EXTENDS Integers, Sequences, FiniteSets, TLC

VARIABLES
    sys,          \* which implementation this run exercises
    alive,        \* FALSE once the process died in the middle of a save
    disk,         \* the data file of the running implementation
    ret,          \* what the last call returned to its caller
    wrote,        \* history: how the disk write of the last call went ("none": no write)
    faults,       \* write failures and crashes injected so far
    crash,        \* history: the file before, and the snapshot of, an interrupted save
    corrections,  \* cli/repo: HashMap<String, CommandLearning>
    loaded,       \* history: the corrections the engine was constructed with
    lastAdded,    \* history: query -> correct_command of its latest add_correction
    database,     \* db: LearningDatabase
    documents,    \* mem: HashMap<String, VectorDocument>
    connected,    \* mem: LocalVectorStore.connected
    config,       \* mem: the IndexingConfig of the indexer
    lvs_documents,\* lvs: LocalVectorStore.documents, a Vec<DocumentChunk>
    rag_config,   \* rag: RAGEngine.config
    collection,   \* rag: the points of the collection the engine searches
    initialized,  \* lre: LocalRAGEngine.initialized
    order,        \* history: the ids now stored, in the order they were first inserted
    expect,       \* history: id -> the document last stored under it and not removed
    args,         \* history: the arguments of the last call, where a claim needs them
    sources,      \* ldi/legacy: the indexer's list of reference sources
    threads,      \* conc: where each caller of the in-memory store is
    lock,         \* conc: the holders of the RwLock around `documents`
    lin,          \* history: the store after the writing calls so far, each made whole
    seed,         \* embed: the random hasher keys of each process
    embedded,     \* history: (process, text) -> what generate_embeddings returned for it
    succeeded,    \* history: a call of LocalRAGEngine::initialize has returned Ok
    cd_start,     \* chunk: chunk_document's `start`
    cd_chunks     \* chunk: chunk_document's `chunks`

common == <<sys, alive, disk, ret, wrote, faults, crash>>
procVars == <<sys, alive, disk, wrote, faults, crash>>
mapVars == <<corrections, loaded, lastAdded>>
dbVars == <<database>>
learnVars == <<mapVars, dbVars>>
memVars == <<documents, connected, config>>
lvsVars == <<lvs_documents>>
ragVars == <<rag_config, collection, initialized>>
docVars == <<memVars, lvsVars, ragVars, expect, args, order>>
concVars == <<threads, lock, lin>>
embedVars == <<seed, embedded>>
chunkVars == <<cd_start, cd_chunks>>
runVars == <<sources, concVars, embedVars, succeeded, chunkVars>>
vars == <<common, learnVars, docVars, runVars>>

----------------------------------------------------------------------------
(* Bounds of the model *)

\* at most this many injected write failures / crashes in one run
MaxFaults == 1

\* the in-memory store holds at most this many documents in the model
MaxStored == 2
MaxChunks == 5
MaxParagraphs == 2

----------------------------------------------------------------------------
(* Option, strings *)

None == <<>>
Some(x) == <<x>>

RECURSIVE SeqToSet(_)
SeqToSet(s) == IF s = <<>> THEN {} ELSE {Head(s)} \cup SeqToSet(Tail(s))

\* every ordering of the elements of a finite set, as sequences
RECURSIVE Orderings(_)
Orderings(S) ==
    IF S = {} THEN {<<>>}
    ELSE UNION {{<<x>> \o t : t \in Orderings(S \ {x})} : x \in S}

UpperToLower ==
    [A |-> "a", B |-> "b", C |-> "c", D |-> "d", E |-> "e", F |-> "f",
     G |-> "g", H |-> "h", I |-> "i", J |-> "j", K |-> "k", L |-> "l",
     M |-> "m", N |-> "n", O |-> "o", P |-> "p", Q |-> "q", R |-> "r",
     S |-> "s", T |-> "t", U |-> "u", V |-> "v", W |-> "w", X |-> "x",
     Y |-> "y", Z |-> "z"]

Lower(c) == IF c \in DOMAIN UpperToLower THEN UpperToLower[c] ELSE c

\* str::to_lowercase
ToLower(s) == [i \in DOMAIN s |-> Lower(s[i])]

IsWhitespace(c) == c \in {" ", "\n", "\t"}

\* str::split_whitespace: the maximal runs of non-whitespace characters
RECURSIVE SplitWs(_, _, _)
SplitWs(s, cur, acc) ==
    IF s = <<>> THEN (IF cur = <<>> THEN acc ELSE Append(acc, cur))
    ELSE IF IsWhitespace(Head(s))
         THEN SplitWs(Tail(s), <<>>, IF cur = <<>> THEN acc ELSE Append(acc, cur))
         ELSE SplitWs(Tail(s), Append(cur, Head(s)), acc)

SplitWhitespace(s) == SplitWs(s, <<>>, <<>>)

\* str::contains(&str): substring test
Contains(hay, needle) ==
    \E i \in 0..(Len(hay) - Len(needle)) : SubSeq(hay, i + 1, i + Len(needle)) = needle

StartsWith(s, p) == Len(p) <= Len(s) /\ SubSeq(s, 1, Len(p)) = p

----------------------------------------------------------------------------
(* The data file.  std::fs::write / tokio::fs::write create-or-truncate the *)
(* file and then write the bytes: a failed or interrupted write leaves the  *)
(* old file (the open failed), an empty file, or part of the new text.      *)

Absent == [kind |-> "absent", data |-> <<>>]
EmptyFile == [kind |-> "empty", data |-> <<>>]
PartialFile == [kind |-> "partial", data |-> <<>>]
FullFile(content) == [kind |-> "full", data |-> content]

WriteFailures == {"fail_open", "fail_truncated", "fail_partial"}
CrashPoints == {"crash_before_open", "crash_truncated", "crash_partial", "crash_written"}
WriteOutcomes == {"ok"} \cup WriteFailures \cup CrashPoints

\* the outcomes a run may still take: injected faults are bounded
Allowed(outcome) == outcome = "ok" \/ faults < MaxFaults

WriteNoTempFile(file, content, outcome) ==
    CASE outcome \in {"ok", "crash_written"} -> FullFile(content)
      [] outcome \in {"fail_open", "crash_before_open"} -> file
      [] outcome \in {"fail_truncated", "crash_truncated"} -> EmptyFile
      [] outcome \in {"fail_partial", "crash_partial"} -> PartialFile

\* fs::write(path, content)
FsWrite(file, content, outcome) == WriteNoTempFile(file, content, outcome)

Ok(v) == [tag |-> "Ok", val |-> v]
Err(e) == [tag |-> "Err", val |-> e]
Unit == <<>>

\* what a call handed back: its name and its Result; a call the process died in
\* handed back nothing
Returned(op, result) == [op |-> op, tag |-> result.tag, val |-> result.val]
NoCall == [op |-> "none", tag |-> "none", val |-> <<>>]
Died(op) == [op |-> op, tag |-> "died", val |-> <<>>]

NoCrash == [happened |-> FALSE, before |-> Absent, intended |-> <<>>]

\* the bookkeeping every saving handler shares: fault count, liveness, history
SaveBookkeeping(content, outcome) ==
    /\ wrote' = outcome
    /\ faults' = IF outcome = "ok" THEN faults ELSE faults + 1
    /\ alive' = (outcome \notin CrashPoints)
    /\ crash' = IF outcome \in CrashPoints
                THEN [happened |-> TRUE, before |-> disk, intended |-> content]
                ELSE crash

----------------------------------------------------------------------------
(* Map-backed learning engine (crates/cuc-cli) and repository              *)

Q1 == <<"l", "s", " ", "d", "b">>
Q2 == <<"s", "h", " ", "d", "b">>
Queries == {Q1, Q2}
Cmd1 == <<"c", "1">>
Cmd2 == <<"c", "2">>
\* the calls the model makes: (query, correct_command, error_pattern)
CliCalls == {<<Q1, Cmd1, Some(<<"e">>)>>, <<Q1, Cmd2, None>>, <<Q2, Cmd1, None>>}

CommandLearning(query, correct_command, error_pattern) ==
    [query |-> query, correct_command |-> correct_command,
     error_pattern |-> error_pattern]

EmptyMap == [k \in {} |-> <<>>]

\* HashMap::insert without overwriting: what entry().or_insert would do
InsertKeepsOld(m, k, v) ==
    [x \in DOMAIN m \cup {k} |-> IF x \in DOMAIN m THEN m[x] ELSE v]

\* a replacement that keeps the metadata entries the new document lacks
InsertMergesMetadata(m, k, v) ==
    [x \in DOMAIN m \cup {k} |->
        IF x # k THEN m[x]
        ELSE IF k \in DOMAIN m
             THEN [v EXCEPT !.metadata =
                      [f \in DOMAIN v.metadata \cup DOMAIN m[k].metadata |->
                          IF f \in DOMAIN v.metadata THEN v.metadata[f]
                          ELSE m[k].metadata[f]]]
             ELSE v]

\* HashMap::insert: the value replaces any value the key had
HashMapInsert(m, k, v) ==
    [x \in DOMAIN m \cup {k} |-> IF x = k THEN v ELSE m[x]]

\* HashMap::get
HashMapGet(m, k) == IF k \in DOMAIN m THEN Some(m[k]) ELSE None

\* HashMap::values().collect(): the values in some iteration order
HashMapValues(m) == {[i \in 1..Len(o) |-> m[o[i]]] : o \in Orderings(DOMAIN m)}

\* `for correction in corrections { self.corrections.insert(..) }`
RECURSIVE InsertAll(_, _)
InsertAll(m, list) ==
    IF list = <<>> THEN m
    ELSE InsertAll(HashMapInsert(m, Head(list).query, Head(list)), Tail(list))

\* load_sync: read the file and parse a JSON array of CommandLearning
Cli_load_sync(file) ==
    IF file.kind = "full" THEN Ok(InsertAll(EmptyMap, file.data))
    ELSE Err("Serialization")

\* CommandLearningEngine::new: a failed load is only warned about
Cli_new ==
    /\ sys \in {"cli", "repo"}
    /\ corrections' = IF disk.kind # "absent" /\ Cli_load_sync(disk).tag = "Ok"
                      THEN Cli_load_sync(disk).val ELSE EmptyMap
    /\ loaded' = corrections'
    /\ lastAdded' = EmptyMap
    /\ alive' = TRUE
    /\ ret' = Returned("new", Ok(Unit))
    /\ wrote' = "none"
    /\ crash' = NoCrash
    /\ UNCHANGED <<sys, runVars, disk, faults, dbVars, docVars>>

\* history: the command now recorded for the query, and the one it replaced
NoteAdded(hist, query, correct_command) ==
    [q \in DOMAIN hist \cup {query} |->
        IF q = query
        THEN [cmd |-> correct_command,
              prev |-> IF q \in DOMAIN hist THEN Some(hist[q].cmd) ELSE None]
        ELSE hist[q]]

\* the Result of fs::write mapped by save(): Ok(()) or Error::Io
SaveResult(outcome) == IF outcome \in WriteFailures THEN Err("Io") ELSE Ok(Unit)

\* a `?` that was left out: the handler goes on to its Ok(())
PropagateDropped(result) == Ok(Unit)

\* `self.save()?; ... Ok(())`: the error of save() is the handler's error
Propagate(result) == IF result.tag = "Err" THEN result ELSE Ok(Unit)

\* what the caller of a saving handler gets
HandlerReturn(op, result, outcome) ==
    IF outcome \in CrashPoints THEN Died(op) ELSE Returned(op, result)

\* CommandLearningEngine::save
Cli_save(map, outcome) ==
    \E json \in HashMapValues(map) :
        /\ disk' = FsWrite(disk, json, outcome)
        /\ SaveBookkeeping(json, outcome)

\* CommandLearningEngine::add_correction
Cli_add_correction(query, correct_command, error_pattern, outcome) ==
    /\ sys = "cli" /\ alive /\ Allowed(outcome)
    /\ LET learning == CommandLearning(query, correct_command, error_pattern)
           inserted == HashMapInsert(corrections, query, learning)
       IN /\ corrections' = inserted
          /\ Cli_save(inserted, outcome)
    /\ ret' = HandlerReturn("add_correction", Propagate(SaveResult(outcome)), outcome)
    /\ lastAdded' = NoteAdded(lastAdded, query, correct_command)
    /\ UNCHANGED <<sys, runVars, loaded, dbVars, docVars>>

\* CommandLearningEngine::get_learned_command
Cli_get_learned_command(query) == HashMapGet(corrections, query)

\* CommandLearningEngine::get_all_corrections
Cli_get_all_corrections == HashMapValues(corrections)

\* the share of the words of query1 that occur anywhere in the text query2
SubstringSimilarity(query1, query2) ==
    LET words1 == SplitWhitespace(query1)
    IN IF words1 = <<>> THEN <<0, 1>>
       ELSE <<Cardinality({i \in 1..Len(words1) : Contains(query2, words1[i])}),
              Len(words1)>>

\* `for word in &words1 { if words2.contains(word) { matches += 1; } }`
RECURSIVE CountMatches(_, _)
CountMatches(words1, words2) ==
    IF words1 = <<>> THEN 0
    ELSE (IF \E k \in 1..Len(words2) : words2[k] = Head(words1) THEN 1 ELSE 0)
         + CountMatches(Tail(words1), words2)

\* calculate_similarity: a score is the fraction <<matches, words>>
Cli_calculate_similarity(query1, query2) ==
    LET words1 == SplitWhitespace(query1)
        words2 == SplitWhitespace(query2)
    IN IF words1 = <<>> THEN <<0, 1>>
       ELSE <<CountMatches(words1, words2), Len(words1)>>

\* a >= b on fractions with positive denominators
FracGe(a, b) == a[1] * b[2] >= b[1] * a[2]

\* sort_by(|a, b| b.1.partial_cmp(&a.1)): stable, highest score first
RECURSIVE SortPairsDesc(_)
SortPairsDesc(list) ==
    IF list = <<>> THEN <<>>
    ELSE LET init == SortPairsDesc(SubSeq(list, 1, Len(list) - 1))
             p == list[Len(list)]
             k == Cardinality({i \in 1..Len(init) : FracGe(init[i][2], p[2])})
         IN SubSeq(init, 1, k) \o <<p>> \o SubSeq(init, k + 1, Len(init))

\* find_similar over the corrections in the order values() yields them
FindSimilar(values, query, threshold) ==
    LET query_lower == ToLower(query)
        scored == [i \in 1..Len(values) |->
                      <<values[i],
                        Cli_calculate_similarity(query_lower, ToLower(values[i].query))>>]
        filtered == SelectSeq(scored, LAMBDA p : FracGe(p[2], threshold))
        sorted == SortPairsDesc(filtered)
    IN [i \in 1..Len(sorted) |-> sorted[i][1]]

\* the queries and thresholds find_similar is called with
SimilarQueries == {<<"L", "S", " ", "d", "b">>, <<"s", " ", "d", "b">>, <<>>}
SimilarThresholds == {<<0, 1>>, <<1, 2>>, <<1, 1>>}

\* CommandLearningEngine::find_similar
Cli_find_similar(query, threshold) ==
    /\ sys = "cli" /\ alive
    /\ \E values \in HashMapValues(corrections) :
          ret' = Returned("find_similar", Ok(FindSimilar(values, query, threshold)))
    /\ args' = [op |-> "find_similar", query |-> query, threshold |-> threshold]
    /\ UNCHANGED <<procVars, runVars, learnVars, memVars, lvsVars, ragVars, expect, order>>

\* FileCommandLearningRepository::save
Repo_save(learning, outcome) ==
    /\ sys = "repo" /\ alive /\ Allowed(outcome)
    /\ LET inserted == HashMapInsert(corrections, learning.query, learning)
       IN /\ corrections' = inserted
          /\ Cli_save(inserted, outcome)
    /\ ret' = HandlerReturn("save", Propagate(SaveResult(outcome)), outcome)
    /\ lastAdded' = NoteAdded(lastAdded, learning.query, learning.correct_command)
    /\ UNCHANGED <<sys, runVars, loaded, dbVars, docVars>>

\* FileCommandLearningRepository::find_by_query
Repo_find_by_query(query) == HashMapGet(corrections, query)

----------------------------------------------------------------------------
(* Appending learning engine (src/command_learning.rs)                     *)

IbmcloudSp == <<"i", "b", "m", "c", "l", "o", "u", "d", " ">>
Bad1 == IbmcloudSp \o <<"d", "b", " ", "l", "s">>
Bad2 == <<"l", "s">>
Unknown == <<"u", "n", "k", "n", "o", "w", "n">>
General == <<"g", "e", "n", "e", "r", "a", "l">>

\* the add_correction calls the model makes:
\* (original_query, incorrect_command, correct_command, error_message, type)
DbCalls == {<<Q1, Bad1, Cmd1, None, "CommandNotFound">>,
            <<Q1, Bad2, Cmd2, None, "CommandNotFound">>,
            <<Q2, Bad2, Cmd1, Some(<<"e">>), "InvalidSyntax">>}

\* the commands whose success is reported; the model follows an engine that
\* is given corrections or one that is given reports, never both: the two
\* touch different fields of the database
MetricCommands == {Cmd1, Cmd2}
\* the corrections vector grows without limit in the code; the model stops here
MaxCorrections == 2

\* RAGConfig::default (the threshold 0.7 is the fraction <<7, 10>>)
RAGConfig_default ==
    [max_context_chunks |-> 5, similarity_threshold |-> <<7, 10>>,
     context_window_size |-> 2000, enable_query_expansion |-> TRUE,
     prioritize_recent |-> FALSE]

\* IndexingConfig::default
IndexingConfig_default == [chunk_size |-> 1000, chunk_overlap |-> 200]

\* rates are held in tenths: 5 is the f32 0.5, a step is 0.1
DefaultRate == 5
RateStep == 1
MaxRate == 10
MinRate == 0

Min(a, b) == IF a < b THEN a ELSE b
Max(a, b) == IF a > b THEN a ELSE b

\* LearningDatabase::new
LearningDatabase_new ==
    [corrections |-> <<>>, patterns |-> EmptyMap, success_metrics |-> EmptyMap]

\* CommandLearningEngine::new: an unparsable file silently gives an empty database
Db_new ==
    /\ sys = "db"
    /\ database' = IF disk.kind = "full" THEN disk.data ELSE LearningDatabase_new
    /\ alive' = TRUE
    /\ ret' = Returned("new", Ok(Unit))
    /\ wrote' = "none"
    /\ crash' = NoCrash
    /\ UNCHANGED <<sys, runVars, disk, faults, mapVars, docVars>>

\* update_patterns: the key the correction is filed under
PatternKey(correction_type, incorrect) ==
    IF correction_type = "CommandNotFound"
    THEN IF StartsWith(incorrect, IbmcloudSp)
         THEN LET parts == SplitWhitespace(SubSeq(incorrect, Len(IbmcloudSp) + 1,
                                                  Len(incorrect)))
              IN IF parts # <<>> THEN Head(parts) ELSE Unknown
         ELSE Unknown
    ELSE General

\* update_patterns: patterns.entry(key).or_insert_with(Vec::new).push(correct)
Db_update_patterns(patterns, correction_type, incorrect, correct) ==
    LET key == PatternKey(correction_type, incorrect)
        old == IF key \in DOMAIN patterns THEN patterns[key] ELSE <<>>
    IN HashMapInsert(patterns, key, Append(old, correct))

\* CommandLearningEngine::save: the database as one JSON document
Db_save(db, outcome) ==
    /\ disk' = FsWrite(disk, db, outcome)
    /\ SaveBookkeeping(db, outcome)

\* CommandLearningEngine::add_correction
Db_add_correction(original_query, incorrect_command, correct_command, error_message, correction_type, outcome) ==
    /\ sys = "db" /\ alive /\ Allowed(outcome)
    /\ Len(database.corrections) < MaxCorrections
    /\ database.success_metrics = EmptyMap
    /\ LET correction == [original_query |-> original_query,
                          incorrect_command |-> incorrect_command,
                          correct_command |-> correct_command,
                          error_message |-> error_message,
                          correction_type |-> correction_type]
           db == [database EXCEPT
                     !.corrections = Append(@, correction),
                     !.patterns = Db_update_patterns(@, correction_type,
                                      incorrect_command, correct_command)]
       IN /\ database' = db
          /\ Db_save(db, outcome)
    /\ ret' = HandlerReturn("add_correction", Propagate(SaveResult(outcome)), outcome)
    /\ UNCHANGED <<sys, runVars, mapVars, docVars>>

\* get_success_rate: success_metrics.get(command).unwrap_or(&0.5)
Db_get_success_rate(db, command) ==
    IF command \in DOMAIN db.success_metrics THEN db.success_metrics[command]
    ELSE DefaultRate

\* `let _ = self.save();`: the Result of the save is thrown away
Discard(result) == Ok(Unit)

\* the new rate without the .min(1.0) / .max(0.0)
UnclampedRate(current_rate, was_successful) ==
    IF was_successful THEN current_rate + RateStep ELSE current_rate - RateStep

\* `(current_rate + 0.1).min(1.0)` / `(current_rate - 0.1).max(0.0)`
NewRate(current_rate, was_successful) ==
    IF was_successful THEN Min(current_rate + RateStep, MaxRate)
    ELSE Max(current_rate - RateStep, MinRate)

\* CommandLearningEngine::update_success_metrics
\* (history: expect holds the commands reported so far, args the call)
Db_update_success_metrics(command, was_successful, outcome) ==
    /\ sys = "db" /\ alive /\ Allowed(outcome)
    /\ database.corrections = <<>>
    /\ LET current_rate == Db_get_success_rate(database, command)
           new_rate == NewRate(current_rate, was_successful)
           db == [database EXCEPT
                     !.success_metrics = HashMapInsert(@, command, new_rate)]
       IN /\ database' = db
          /\ Db_save(db, outcome)
          /\ args' = [op |-> "update_success_metrics", command |-> command,
                      was_successful |-> was_successful, before |-> current_rate]
    /\ expect' = HashMapInsert(expect, command, TRUE)
    /\ ret' = HandlerReturn("update_success_metrics", Discard(SaveResult(outcome)),
                            outcome)
    /\ UNCHANGED <<sys, runVars, mapVars, memVars, lvsVars, ragVars, order>>

\* the characters of the model in the order of their bytes
AsciiOrder ==
    <<"\t", "\n", " ", "'", "-", ".", "0", "1", "2", "3", "4", "5", "6", "7", "8",
      "9", ":", ";", "A", "B", "C", "D", "E", "F", "G", "H", "I", "J", "K", "L",
      "M", "N", "O", "P", "Q", "R", "S", "T", "U", "V", "W", "X", "Y", "Z",
      "a", "b", "c", "d", "e", "f", "g", "h", "i", "j", "k", "l", "m", "n", "o",
      "p", "q", "r", "s", "t", "u", "v", "w", "x", "y", "z">>

CharRank(c) == CHOOSE i \in 1..Len(AsciiOrder) : AsciiOrder[i] = c

\* String's Ord: byte-wise lexicographic, a proper prefix first
RECURSIVE StrLess(_, _)
StrLess(a, b) ==
    IF b = <<>> THEN FALSE
    ELSE IF a = <<>> THEN TRUE
    ELSE IF Head(a) = Head(b) THEN StrLess(Tail(a), Tail(b))
    ELSE CharRank(Head(a)) < CharRank(Head(b))

\* Vec<String>::sort
RECURSIVE SortStrings(_)
SortStrings(list) ==
    IF list = <<>> THEN <<>>
    ELSE LET init == SortStrings(SubSeq(list, 1, Len(list) - 1))
             x == list[Len(list)]
             k == Cardinality({i \in 1..Len(init) : ~StrLess(x, init[i])})
         IN SubSeq(init, 1, k) \o <<x>> \o SubSeq(init, k + 1, Len(init))

\* Vec::dedup: drops an element equal to the one before it
RECURSIVE Dedup(_)
Dedup(list) ==
    IF Len(list) <= 1 THEN list
    ELSE LET init == Dedup(SubSeq(list, 1, Len(list) - 1))
         IN IF list[Len(list)] = init[Len(init)] THEN init
            ELSE Append(init, list[Len(list)])

\* `suggestions.truncate(3)`
SuggestionLimit == 3

\* get_suggestions: the correct commands of the matching records, in order
MatchingCorrections(db, failed_command) ==
    LET hits == SelectSeq(db.corrections, LAMBDA c :
                    \/ Contains(ToLower(c.original_query), ToLower(failed_command))
                    \/ c.incorrect_command = failed_command)
    IN [i \in 1..Len(hits) |-> hits[i].correct_command]

\* get_suggestions: the entries of the patterns whose key the failed command
\* contains, the keys taken in the order `keys`
RECURSIVE MatchingPatterns(_, _, _)
MatchingPatterns(patterns, keys, failed_command) ==
    IF keys = <<>> THEN <<>>
    ELSE (IF Contains(failed_command, Head(keys)) THEN patterns[Head(keys)] ELSE <<>>)
         \o MatchingPatterns(patterns, Tail(keys), failed_command)

\* get_suggestions, the patterns map iterated in the order `keys`
GetSuggestions(db, keys, failed_command) ==
    LET suggestions == MatchingCorrections(db, failed_command)
                       \o MatchingPatterns(db.patterns, keys, failed_command)
        unique == Dedup(SortStrings(suggestions))
    IN SubSeq(unique, 1, Min(SuggestionLimit, Len(unique)))

\* the failed commands and queries looked up: a stored query, a command that
\* contains it, and a word of it in upper case
LookupQueries == {Q1, Q1 \o <<" ", "x">>, <<"L", "S">>}

\* CommandLearningEngine::get_suggestions
Db_get_suggestions(failed_command) ==
    /\ sys = "db" /\ alive
    /\ \E keys \in Orderings(DOMAIN database.patterns) :
          ret' = Returned("get_suggestions",
                          Ok(GetSuggestions(database, keys, failed_command)))
    /\ args' = [op |-> "get_suggestions", query |-> failed_command]
    /\ UNCHANGED <<procVars, runVars, learnVars, memVars, lvsVars, ragVars, expect, order>>

\* `.take(3)` in get_learning_context
ContextLimit == 3

Services == <<"s", "e", "r", "v", "i", "c", "e", "s">>

\* get_learning_context: the text is "\nLearned corrections:\n" and one line
\* "- Query: '..' -> Correct command: '..'\n" per relevant correction, when
\* there is one, and the note on 'services' when the query has that word; the
\* model keeps the (query, command) of each line and whether the note is there
GetLearningContext(db, query) ==
    LET relevant == SelectSeq(db.corrections, LAMBDA c :
                        \/ Contains(ToLower(c.original_query), ToLower(query))
                        \/ Contains(ToLower(query), ToLower(c.original_query)))
        taken == SubSeq(relevant, 1, Min(ContextLimit, Len(relevant)))
    IN [lines |-> [i \in 1..Len(taken) |->
                      <<taken[i].original_query, taken[i].correct_command>>],
        note |-> Contains(query, Services)]

\* CommandLearningEngine::get_learning_context
Db_get_learning_context(query) ==
    /\ sys = "db" /\ alive
    /\ ret' = Returned("get_learning_context", Ok(GetLearningContext(database, query)))
    /\ args' = [op |-> "get_learning_context", query |-> query]
    /\ UNCHANGED <<procVars, runVars, learnVars, memVars, lvsVars, ragVars, expect, order>>

\* the phrases analyze_error looks for
PatNotARegisteredCommand ==
    <<"n", "o", "t", " ", "a", " ", "r", "e", "g", "i", "s", "t", "e",
      "r", "e", "d", " ", "c", "o", "m", "m", "a", "n", "d">>
PatCommandNotFound ==
    <<"c", "o", "m", "m", "a", "n", "d", " ", "n", "o", "t", " ", "f",
      "o", "u", "n", "d">>
PatInvalidSyntax ==
    <<"i", "n", "v", "a", "l", "i", "d", " ", "s", "y", "n", "t", "a",
      "x">>
PatUsage ==
    <<"u", "s", "a", "g", "e", ":">>
PatPlugin ==
    <<"p", "l", "u", "g", "i", "n">>
PatNotInstalled ==
    <<"n", "o", "t", " ", "i", "n", "s", "t", "a", "l", "l", "e", "d">>
PatSubcommand ==
    <<"s", "u", "b", "c", "o", "m", "m", "a", "n", "d">>
PatParameter ==
    <<"p", "a", "r", "a", "m", "e", "t", "e", "r">>
PatArgument ==
    <<"a", "r", "g", "u", "m", "e", "n", "t">>

\* CorrectionType: only Other carries a message
CorrectionType(type) == [type |-> type, message |-> None]
Other(message) == [type |-> "Other", message |-> Some(message)]

\* analyze_error with the subcommand rule tried before the plugin rule
AnalyzeSubcommandFirst(error_message) ==
    LET error_lower == ToLower(error_message)
    IN IF Contains(error_lower, PatNotARegisteredCommand)
          \/ Contains(error_lower, PatCommandNotFound)
       THEN CorrectionType("CommandNotFound")
       ELSE IF Contains(error_lower, PatInvalidSyntax)
               \/ Contains(error_lower, PatUsage)
       THEN CorrectionType("InvalidSyntax")
       ELSE IF Contains(error_lower, PatSubcommand)
       THEN CorrectionType("WrongSubcommand")
       ELSE IF Contains(error_lower, PatPlugin)
               /\ Contains(error_lower, PatNotInstalled)
       THEN CorrectionType("MissingPlugin")
       ELSE IF Contains(error_lower, PatParameter)
               \/ Contains(error_lower, PatArgument)
       THEN CorrectionType("ParameterError")
       ELSE Other(error_message)

\* CommandLearningEngine::analyze_error
AnalyzeError(error_message) ==
    LET error_lower == ToLower(error_message)
    IN IF Contains(error_lower, PatNotARegisteredCommand)
          \/ Contains(error_lower, PatCommandNotFound)
       THEN CorrectionType("CommandNotFound")
       ELSE IF Contains(error_lower, PatInvalidSyntax)
               \/ Contains(error_lower, PatUsage)
       THEN CorrectionType("InvalidSyntax")
       ELSE IF Contains(error_lower, PatPlugin)
               /\ Contains(error_lower, PatNotInstalled)
       THEN CorrectionType("MissingPlugin")
       ELSE IF Contains(error_lower, PatSubcommand)
       THEN CorrectionType("WrongSubcommand")
       ELSE IF Contains(error_lower, PatParameter)
               \/ Contains(error_lower, PatArgument)
       THEN CorrectionType("ParameterError")
       ELSE Other(error_message)

\* the pieces the error messages of the model are put together from
ErrorPieces ==
    <<<<"'", "x", "y", "z", "'", " ", "i", "s", " ", "N", "o", "t", " ",
        "a", " ", "R", "e", "g", "i", "s", "t", "e", "r", "e", "d", " ",
        "C", "o", "m", "m", "a", "n", "d", ";", " ">>,
      <<"C", "o", "m", "m", "a", "n", "d", " ", "N", "o", "t", " ", "F",
        "o", "u", "n", "d", ";", " ">>,
      <<"I", "n", "v", "a", "l", "i", "d", " ", "S", "y", "n", "t", "a",
        "x", ";", " ">>,
      <<"U", "S", "A", "G", "E", ":", " ", "l", "s", ";", " ">>,
      <<"P", "l", "u", "g", "i", "n", ";", " ">>,
      <<"n", "o", "t", " ", "i", "n", "s", "t", "a", "l", "l", "e", "d",
        ";", " ">>,
      <<"S", "u", "b", "c", "o", "m", "m", "a", "n", "d", ";", " ">>,
      <<"p", "a", "r", "a", "m", "e", "t", "e", "r", ";", " ">>,
      <<"A", "r", "g", "u", "m", "e", "n", "t", ";", " ">>,
      <<"x", "y", "z", ";", " ">>>>

\* the message made of the chosen pieces, in the order of ErrorPieces
RECURSIVE ErrorMessage(_, _)
ErrorMessage(chosen, k) ==
    IF k > Len(ErrorPieces) THEN <<>>
    ELSE (IF k \in chosen THEN ErrorPieces[k] ELSE <<>>) \o ErrorMessage(chosen, k + 1)

ErrorMessages == {ErrorMessage(chosen, 1) : chosen \in SUBSET (1..Len(ErrorPieces))}

\* a call of analyze_error on the message the state holds
Db_analyze_error ==
    /\ sys = "analyze" /\ ret = NoCall
    /\ ret' = Returned("analyze_error", Ok(AnalyzeError(args.error_message)))
    /\ UNCHANGED <<procVars, runVars, learnVars, docVars>>

----------------------------------------------------------------------------
(* Claims about the learning engines *)

\* C1: in the map-backed engine (and the repository built the same way),
\* get_learned_command(q) returns the correct_command of the most recent
\* add_correction for exactly q, what the engine was constructed with when q
\* was not added since (nothing for an engine constructed on no file), and
\* get_all_corrections holds exactly one entry per distinct query.
C1_LastWriteWins ==
    sys \in {"cli", "repo"} =>
        LET Learned(q) == IF sys = "repo" THEN Repo_find_by_query(q)
                          ELSE Cli_get_learned_command(q)
        IN
        /\ \A q \in Queries :
              IF q \in DOMAIN lastAdded
              THEN /\ Learned(q) # None
                   /\ Learned(q)[1].query = q
                   /\ Learned(q)[1].correct_command = lastAdded[q].cmd
              ELSE /\ Learned(q) = HashMapGet(loaded, q)
                   /\ (loaded = EmptyMap => Learned(q) = None)
        /\ \A all \in Cli_get_all_corrections :
              /\ Len(all) = Cardinality(DOMAIN lastAdded \cup DOMAIN loaded)
              /\ \A q \in DOMAIN lastAdded \cup DOMAIN loaded :
                    Cardinality({i \in 1..Len(all) : all[i].query = q}) = 1

\* C1 witness: Q1 was corrected to Cmd1 and then to Cmd2, Q2 once
C1_Witness ==
    /\ sys = "cli" /\ alive /\ loaded = EmptyMap
    /\ DOMAIN lastAdded = {Q1, Q2}
    /\ lastAdded[Q1] = [cmd |-> Cmd2, prev |-> Some(Cmd1)]
    /\ Cli_get_learned_command(Q1)[1].correct_command = Cmd2

\* the word-overlap score of a stored query for a query: the number of the
\* words of the lower-cased query that are words of the lower-cased stored
\* query, over the number of words of the query
WordOverlap(query, stored) ==
    LET qw == SplitWhitespace(ToLower(query))
        sw == SeqToSet(SplitWhitespace(ToLower(stored)))
    IN IF Len(qw) = 0 THEN <<0, 1>>
       ELSE <<Cardinality({i \in 1..Len(qw) : qw[i] \in sw}), Len(qw)>>

\* C12: find_similar(query, threshold) returns exactly the stored corrections
\* whose word-overlap score is at least the threshold, each once, in
\* non-increasing order of that score.
C12_FindSimilarByWordOverlap ==
    (sys = "cli" /\ ret.op = "find_similar") =>
        LET res == ret.val
            Score(c) == WordOverlap(args.query, c.query)
        IN /\ {res[i] : i \in 1..Len(res)}
                 = {corrections[q] : q \in {k \in DOMAIN corrections :
                       FracGe(Score(corrections[k]), args.threshold)}}
           /\ Len(res) = Cardinality({res[i] : i \in 1..Len(res)})
           /\ \A i, j \in 1..Len(res) :
                 i < j => FracGe(Score(res[i]), Score(res[j]))

\* C12 witness: of two stored corrections, a query with an upper-case word
\* got both back, the one that shares two words before the one that shares one
C12_Witness ==
    /\ sys = "cli" /\ ret.op = "find_similar"
    /\ args.query = <<"L", "S", " ", "d", "b">> /\ args.threshold = <<1, 2>>
    /\ Len(ret.val) = 2
    /\ ret.val[1].query = Q1 /\ ret.val[2].query = Q2

\* C13: analyze_error always returns a type: that of the first rule, in the
\* order CommandNotFound, InvalidSyntax, MissingPlugin, WrongSubcommand,
\* ParameterError, that the lower-cased message matches, and Other with the
\* message as it was given when no rule matches.
C13_AnalyzeErrorFirstRuleWins ==
    (sys = "analyze" /\ ret.op = "analyze_error") =>
      /\ ret.tag = "Ok"
      /\ LET m == ToLower(args.error_message)
            Types == <<"CommandNotFound", "InvalidSyntax", "MissingPlugin",
                       "WrongSubcommand", "ParameterError">>
            Rule == <<Contains(m, PatNotARegisteredCommand)
                         \/ Contains(m, PatCommandNotFound),
                      Contains(m, PatInvalidSyntax) \/ Contains(m, PatUsage),
                      Contains(m, PatPlugin) /\ Contains(m, PatNotInstalled),
                      Contains(m, PatSubcommand),
                      Contains(m, PatParameter) \/ Contains(m, PatArgument)>>
            Matching == {k \in 1..5 : Rule[k]}
         IN IF Matching = {}
            THEN ret.val = [type |-> "Other", message |-> Some(args.error_message)]
            ELSE \E k \in Matching :
                    /\ \A l \in Matching : k <= l
                    /\ ret.val = [type |-> Types[k], message |-> None]

\* C13 witness: a message with upper-case letters that matches the plugin,
\* subcommand and parameter rules and no earlier one was typed MissingPlugin
C13_Witness ==
    /\ sys = "analyze" /\ ret.op = "analyze_error"
    /\ args.error_message = ErrorMessage({5, 6, 7, 8}, 1)
    /\ ret.val.type = "MissingPlugin"

\* C14: in the appending engine the success rate of every command is within
\* [0, 1] (0..10 tenths) and is 0.5 for a command never reported; a report
\* moves the rate of its command by 0.1, up on success and down on failure,
\* stopping at 1.0 and 0.0, and leaves the rate of every other command as it was.
C14_SuccessRateClamped ==
    /\ [](sys = "db" =>
            \A c \in MetricCommands :
               /\ Db_get_success_rate(database, c) \in MinRate..MaxRate
               /\ c \notin DOMAIN expect => Db_get_success_rate(database, c) = DefaultRate)
    /\ [][(sys = "db" /\ ret'.op = "update_success_metrics") =>
            \E c \in MetricCommands :
               /\ args'.command = c
               /\ LET was == Db_get_success_rate(database, c)
                      now == Db_get_success_rate(database', c)
                  IN IF args'.was_successful
                     THEN now = IF was + RateStep > MaxRate THEN MaxRate
                                ELSE was + RateStep
                     ELSE now = IF was - RateStep < MinRate THEN MinRate
                                ELSE was - RateStep
               /\ \A d \in MetricCommands \ {c} :
                     Db_get_success_rate(database', d) = Db_get_success_rate(database, d)
          ]_vars

\* C14 witness: a success reported for a command already at 1.0 left it at 1.0
\* while the other command is at 0.0
C14_Witness ==
    /\ sys = "db" /\ ret.op = "update_success_metrics" /\ ret.tag = "Ok"
    /\ args.command = Cmd1 /\ args.was_successful /\ args.before = MaxRate
    /\ Db_get_success_rate(database, Cmd1) = MaxRate
    /\ Db_get_success_rate(database, Cmd2) = MinRate

\* C15: get_suggestions(failed_command, _) returns the first 3, in ascending
\* order and without duplicates, of the correct commands of the records whose
\* original_query contains the failed command or is contained in it, together
\* with the entries of the patterns whose key the failed command contains.
C15_SuggestionsFromEitherContainment ==
    (sys = "db" /\ ret.op = "get_suggestions") =>
        LET f == args.query
            recs == database.corrections
            fromRecords ==
                {recs[i].correct_command : i \in
                    {k \in 1..Len(recs) :
                        \/ Contains(ToLower(recs[k].original_query), ToLower(f))
                        \/ Contains(ToLower(f), ToLower(recs[k].original_query))}}
            fromPatterns ==
                UNION {SeqToSet(database.patterns[key]) : key \in
                          {k \in DOMAIN database.patterns : Contains(f, k)}}
            all == fromRecords \cup fromPatterns
            res == ret.val
            got == SeqToSet(res)
        IN /\ \A i, j \in 1..Len(res) : i < j => StrLess(res[i], res[j])
           /\ got \subseteq all
           /\ Len(res) = Min(SuggestionLimit, Cardinality(all))
           /\ \A x \in all \ got : \A y \in got : StrLess(y, x)

\* C16: in the appending engine, looking a query up (get_suggestions,
\* get_learning_context) surfaces, of the correct commands recorded for exactly
\* that query, only the one recorded last.
C16_OnlyLatestCorrectionSurfaces ==
    (sys = "db" /\ ret.op \in {"get_suggestions", "get_learning_context"}) =>
        LET q == args.query
            recs == database.corrections
            mine == {k \in 1..Len(recs) : recs[k].original_query = q}
            surfaced == IF ret.op = "get_suggestions" THEN SeqToSet(ret.val)
                        ELSE {ret.val.lines[i][2] : i \in
                                 {k \in 1..Len(ret.val.lines) : ret.val.lines[k][1] = q}}
        IN mine # {} =>
              LET last == CHOOSE k \in mine : \A l \in mine : l <= k
              IN surfaced \cap {recs[k].correct_command : k \in mine}
                    \subseteq {recs[last].correct_command}

\* C5: add_correction (both engines) returns an error whenever the write of
\* the database failed, and returns Ok only with the correction on disk.
C5_AddCorrectionReportsWriteFailure ==
    (sys \in {"cli", "db"} /\ ret.op = "add_correction") =>
        /\ wrote \in WriteFailures => ret.tag = "Err"
        /\ ret.tag = "Ok" =>
              /\ disk.kind = "full"
              /\ sys = "db" => disk.data = database
              /\ sys = "cli" => Cli_load_sync(disk).val = corrections

\* C5 witness: an add_correction of the appending engine whose write failed
C5_Witness ==
    /\ sys = "db" /\ ret.op = "add_correction" /\ wrote = "fail_partial"
    /\ ret.tag = "Err" /\ Len(database.corrections) = 1

\* C6: every operation that changes the database and writes it reports a
\* failed write to its caller, update_success_metrics included.
C6_EveryMutationReportsWriteFailure ==
    (sys = "db" /\ wrote \in WriteFailures) => ret.tag = "Err"

\* C7: a save that is interrupted leaves the complete previous file or the
\* complete new snapshot on disk.
C7_SaveIsAtomic ==
    crash.happened => (disk = crash.before \/ disk = FullFile(crash.intended))

----------------------------------------------------------------------------
(* In-memory document store (src/rag/vector_store.rs)                      *)

NoArgs == [op |-> "none"]

\* the documents the model stores: two under the id "x", with different
\* content and metadata, and one under "y"
IdX == <<"x">>
IdY == <<"y">>
VectorDocument(id, content, metadata) ==
    [id |-> id, content |-> content, embedding |-> None, metadata |-> metadata,
     score |-> None]
DocX1 == VectorDocument(IdX, <<"L", "s", " ", "d", "b">>, [type |-> <<"t">>])
DocX2 == VectorDocument(IdX, <<"D", "b", "s">>, EmptyMap)
DocY1 == VectorDocument(IdY, <<"l", "s">>, [type |-> <<"t">>])
StoreDocs == {DocX1, DocX2, DocY1}
StoreBatches == {<<DocX1, DocY1>>, <<DocX1, DocX2>>}
DeleteIds == {IdX, IdY, <<"d", "_", "0">>}

\* the searches the model makes; a score is the fraction <<matches, words>>
SearchQueries == {<<"l", "s", " ", "D", "B">>, <<"d", "b">>, <<>>}
Thresholds == {None, Some(<<1, 2>>)}
\* the largest top_k the model asks for
MaxTopK == 2
SearchConfigs == [top_k : 0..MaxTopK, score_threshold : Thresholds]

\* a >= b and a > b on fractions with positive denominators
ScoreGe(a, b) == a[1] * b[2] >= b[1] * a[2]
ScoreGt(a, b) == a[1] * b[2] > b[1] * a[2]

\* LocalVectorStore::text_similarity: the share of the query's words that
\* occur anywhere in the lower-cased content
TextSimilarity(query, content) ==
    LET query_words == SplitWhitespace(ToLower(query))
        content_lower == ToLower(content)
        matches == Cardinality({i \in 1..Len(query_words) :
                                   Contains(content_lower, query_words[i])})
    IN IF query_words = <<>> THEN <<0, 1>> ELSE <<matches, Len(query_words)>>

\* Vec::truncate
Truncate(list, n) == SubSeq(list, 1, Min(n, Len(list)))

\* Vec::sort_by(|a, b| b.score.partial_cmp(&a.score)): stable, best first
RECURSIVE SortByScoreDesc(_)
SortByScoreDesc(list) ==
    IF list = <<>> THEN <<>>
    ELSE LET init == SortByScoreDesc(SubSeq(list, 1, Len(list) - 1))
             d == list[Len(list)]
             k == Cardinality({i \in 1..Len(init) : ScoreGe(init[i].score[1], d.score[1])})
         IN SubSeq(init, 1, k) \o <<d>> \o SubSeq(init, k + 1, Len(init))

\* the list cut to top_k before it is sorted
TruncateThenSort(list, top_k) == SortByScoreDesc(Truncate(list, top_k))

\* search: sort, then truncate to top_k
SortThenTruncate(list, top_k) == Truncate(SortByScoreDesc(list), top_k)

\* search: the filter on config.score_threshold
PassesThreshold(doc, cfg) ==
    IF cfg.score_threshold # None THEN ScoreGe(doc.score[1], cfg.score_threshold[1])
    ELSE TRUE

\* search over the documents in the order docs.values() yields them
SearchResults(values, query, cfg) ==
    LET scored == [i \in 1..Len(values) |->
                      [values[i] EXCEPT
                          !.score = Some(TextSimilarity(query, values[i].content))]]
        filtered == SelectSeq(scored, LAMBDA d : PassesThreshold(d, cfg))
        results == SortThenTruncate(filtered, cfg.top_k)
    IN [documents |-> results, total |-> Len(results)]

\* history: the ids of `ids` not yet stored are inserted now, in their order
RECURSIVE NoteInserted(_, _)
NoteInserted(hist, ids) ==
    IF ids = <<>> THEN hist
    ELSE NoteInserted(IF Head(ids) \in SeqToSet(hist) THEN hist
                      ELSE Append(hist, Head(ids)), Tail(ids))

\* LocalVectorStore::connect
Mem_connect ==
    /\ sys \in {"mem", "lre"} /\ ~connected
    /\ connected' = TRUE
    /\ ret' = Returned("connect", Ok(Unit))
    /\ args' = NoArgs
    /\ UNCHANGED <<procVars, runVars, learnVars, documents, config, expect, lvsVars, ragVars, order>>

\* LocalVectorStore::store
Mem_store(document) ==
    /\ sys = "mem"
    /\ documents' = HashMapInsert(documents, document.id, document)
    /\ Cardinality(DOMAIN documents') <= MaxStored
    /\ ret' = Returned("store", Ok(document.id))
    /\ order' = NoteInserted(order, <<document.id>>)
    /\ expect' = [x \in DOMAIN expect \cup {document.id} |->
                     IF x = document.id THEN document ELSE expect[x]]
    /\ args' = NoArgs
    /\ UNCHANGED <<procVars, runVars, learnVars, connected, config, lvsVars, ragVars>>

\* store_batch: `for document in documents { docs.insert(id, document) }`
RECURSIVE InsertDocs(_, _)
InsertDocs(m, list) ==
    IF list = <<>> THEN m
    ELSE InsertDocs(HashMapInsert(m, Head(list).id, Head(list)), Tail(list))

\* LocalVectorStore::store_batch
Mem_store_batch(batch) ==
    /\ sys = "mem"
    /\ documents' = InsertDocs(documents, batch)
    /\ Cardinality(DOMAIN documents') <= MaxStored
    /\ ret' = Returned("store_batch", Ok([i \in 1..Len(batch) |-> batch[i].id]))
    /\ order' = NoteInserted(order, [i \in 1..Len(batch) |-> batch[i].id])
    /\ expect' = [x \in DOMAIN expect \cup {batch[i].id : i \in 1..Len(batch)} |->
                     LET at == {i \in 1..Len(batch) : batch[i].id = x}
                     IN IF at = {} THEN expect[x]
                        ELSE batch[CHOOSE i \in at : \A j \in at : j <= i]]
    /\ args' = NoArgs
    /\ UNCHANGED <<procVars, runVars, learnVars, connected, config, lvsVars, ragVars>>

\* LocalVectorStore::search
Mem_search(query, cfg) ==
    /\ sys = "mem"
    /\ \E values \in HashMapValues(documents) :
          ret' = Returned("search", Ok(SearchResults(values, query, cfg)))
    /\ args' = [op |-> "search", query |-> query, config |-> cfg]
    /\ UNCHANGED <<procVars, runVars, learnVars, memVars, expect, lvsVars, ragVars, order>>

\* LocalVectorStore::get
Mem_get_from(docs, id) == HashMapGet(docs, id)
Mem_get(id) == Mem_get_from(documents, id)

\* LocalVectorStore::count
Mem_count == Cardinality(DOMAIN documents)

\* LocalVectorStore::delete
Mem_delete(id) ==
    /\ sys = "mem"
    /\ documents' = [x \in DOMAIN documents \ {id} |-> documents[x]]
    /\ ret' = Returned("delete", Ok(id \in DOMAIN documents))
    /\ order' = SelectSeq(order, LAMBDA x : x # id)
    /\ expect' = [x \in DOMAIN expect \ {id} |-> expect[x]]
    /\ args' = NoArgs
    /\ UNCHANGED <<procVars, runVars, learnVars, connected, config, lvsVars, ragVars>>

\* LocalVectorStore::clear
Mem_clear ==
    /\ sys = "mem"
    /\ documents' = EmptyMap
    /\ ret' = Returned("clear", Ok(Unit))
    /\ order' = <<>>
    /\ expect' = EmptyMap
    /\ args' = NoArgs
    /\ UNCHANGED <<procVars, runVars, learnVars, connected, config, lvsVars, ragVars>>

----------------------------------------------------------------------------
(* Document indexer over the in-memory store (src/rag/document_indexer.rs) *)

\* the configurations with_config is given: the default, and a small one
\* that cuts the model's short texts into several chunks
SmallConfig == [chunk_size |-> 3, chunk_overlap |-> 1]
IndexConfigs == {IndexingConfig_default, SmallConfig}

Document(id, title, content, url, metadata) ==
    [id |-> id, title |-> title, content |-> content, url |-> url,
     metadata |-> metadata]

TextLong == <<"a", "b", "c", "d", "e">>
TextShort == <<"a", "b">>
IdxDocs == {Document(<<"d">>, <<"t">>, TextLong, None, [type |-> <<"g">>]),
            Document(<<"d">>, <<"t">>, TextShort, Some(<<"w">>), [type |-> <<"g">>]),
            Document(<<"e">>, <<"t">>, TextLong, None, [type |-> <<"g">>])}

\* the files index_from_file reads: one that exists, one that does not
PathP == <<"p">>
PathMissing == <<"m">>
Paths == {PathP, PathMissing}
\* tokio::fs::read_to_string
ReadToString(path) == IF path = PathP THEN Ok(TextLong) ELSE Err("Io")

\* the values Uuid::new_v4() may return
Uuids == {<<"u">>, <<"v">>}

Digits == <<"0", "1", "2", "3", "4", "5", "6", "7", "8", "9">>
\* usize::to_string / `{}` of an integer
RECURSIVE DecStr(_)
DecStr(n) == IF n < 10 THEN <<Digits[n + 1]>>
             ELSE DecStr(n \div 10) \o <<Digits[(n % 10) + 1]>>

\* chunk_document: the loop from `start`, for a content of `chars`
RECURSIVE ChunkFrom(_, _, _)
ChunkFrom(chars, start, cfg) ==
    IF start < Len(chars)
    THEN LET end == Min(start + cfg.chunk_size, Len(chars))
             chunk == SubSeq(chars, start + 1, end)
         IN IF end >= Len(chars) THEN <<chunk>>
            ELSE <<chunk>> \o ChunkFrom(chars, end - cfg.chunk_overlap, cfg)
    ELSE <<>>

\* LocalDocumentIndexer::chunk_document
Idx_chunk_document(content, cfg) == ChunkFrom(content, 0, cfg)

\* format!("{}_{}", document.id, i)
ChunkId(document_id, i) == document_id \o <<"_">> \o DecStr(i)

\* index_document: the VectorDocument built for chunk i (counted from 0)
ChunkDocument(document, chunks, i) ==
    LET metadata == ("chunk_index" :> i) @@ ("total_chunks" :> Len(chunks))
                    @@ ("title" :> document.title)
                    @@ (IF document.url # None THEN "url" :> document.url[1]
                        ELSE EmptyMap)
                    @@ document.metadata
    IN [id |-> ChunkId(document.id, i), content |-> chunks[i + 1],
        embedding |-> None, metadata |-> metadata, score |-> None]

\* index_document: every chunk stored, in order; store never fails here
\* (its only error is a poisoned lock, and no holder of the lock panics)
IndexedDocs(document, cfg) ==
    LET chunks == Idx_chunk_document(document.content, cfg)
    IN [k \in 1..Len(chunks) |-> ChunkDocument(document, chunks, k - 1)]

IndexingResult(indexed, failed, errors) ==
    [documents_indexed |-> indexed, documents_failed |-> failed, errors |-> errors]

\* history: is this call the same indexing as the call before it?
IndexArgs(op, key, text) ==
    [op |-> op, key |-> key, text |-> text,
     repeat |-> /\ args.op = op /\ args.key = key /\ args.text = text
                /\ ret.tag = "Ok",
     before |-> Cardinality(DOMAIN documents)]

\* the effect of index_document on the store and on what the caller gets
IndexIntoStore(op, document) ==
    LET vdocs == IndexedDocs(document, config)
    IN /\ documents' = InsertDocs(documents, vdocs)
       /\ Cardinality(DOMAIN documents') <= MaxStored
       /\ expect' = InsertDocs(expect, vdocs)
       /\ order' = NoteInserted(order, [i \in 1..Len(vdocs) |-> vdocs[i].id])
       /\ ret' = Returned(op, Ok(IndexingResult(Len(vdocs), 0, <<>>)))

\* LocalDocumentIndexer::index_document
Idx_index_document(document) ==
    /\ sys = "mem"
    /\ IndexIntoStore("index_document", document)
    /\ args' = IndexArgs("index_document", document.id, document.content)
    /\ UNCHANGED <<procVars, runVars, learnVars, connected, config, lvsVars, ragVars>>

\* index_from_file: `id: Uuid::new_v4().to_string()`
IdFromUuid(path, uuid) == uuid

\* LocalDocumentIndexer::index_from_file
Idx_index_from_file(path, uuid) ==
    /\ sys = "mem"
    /\ LET content == ReadToString(path)
       IN IF content.tag = "Err"
          THEN /\ ret' = Returned("index_from_file", content)
               /\ args' = IndexArgs("index_from_file", path, <<>>)
               /\ UNCHANGED <<documents, expect, order>>
          ELSE /\ IndexIntoStore("index_from_file",
                      Document(IdFromUuid(path, uuid), path, content.val, None,
                               [source |-> <<"f", "i", "l", "e">>, path |-> path]))
               /\ args' = IndexArgs("index_from_file", path, content.val)
    /\ UNCHANGED <<procVars, runVars, learnVars, connected, config, lvsVars, ragVars>>

----------------------------------------------------------------------------
(* Long texts.  The file-backed indexer splits texts of more than 1000     *)
(* bytes, so its texts are held run-length encoded: a sequence of runs     *)
(* [c, n] (n >= 1 copies of the character c), adjacent runs of different   *)
(* characters.  "a" stands for a lower-case letter, "A" for an upper-case  *)
(* one, "1" for a digit.  All characters are ASCII: bytes and characters   *)
(* count the same.                                                         *)

Run(c, n) == [c |-> c, n |-> n]

\* concatenation, keeping the encoding canonical
RCat(s, t) ==
    IF s = <<>> THEN t
    ELSE IF t = <<>> THEN s
    ELSE IF s[Len(s)].c = t[1].c
         THEN SubSeq(s, 1, Len(s) - 1) \o <<Run(t[1].c, s[Len(s)].n + t[1].n)>>
              \o Tail(t)
         ELSE s \o t

\* str::len
RECURSIVE RLen(_)
RLen(s) == IF s = <<>> THEN 0 ELSE Head(s).n + RLen(Tail(s))

RECURSIVE RTrimStart(_)
RTrimStart(s) ==
    IF s # <<>> /\ IsWhitespace(Head(s).c) THEN RTrimStart(Tail(s)) ELSE s

RECURSIVE RTrimEnd(_)
RTrimEnd(s) ==
    IF s # <<>> /\ IsWhitespace(s[Len(s)].c) THEN RTrimEnd(SubSeq(s, 1, Len(s) - 1))
    ELSE s

\* str::trim
RTrim(s) == RTrimEnd(RTrimStart(s))

\* str::to_lowercase
RLowerChar(c) == IF c = "A" THEN "a" ELSE c
RECURSIVE RToLower(_)
RToLower(s) ==
    IF s = <<>> THEN <<>>
    ELSE RCat(<<Run(RLowerChar(Head(s).c), Head(s).n)>>, RToLower(Tail(s)))

\* str::split_whitespace
RECURSIVE RSplitWs(_, _, _)
RSplitWs(s, cur, acc) ==
    IF s = <<>> THEN (IF cur = <<>> THEN acc ELSE Append(acc, cur))
    ELSE IF IsWhitespace(Head(s).c)
         THEN RSplitWs(Tail(s), <<>>, IF cur = <<>> THEN acc ELSE Append(acc, cur))
         ELSE RSplitWs(Tail(s), Append(cur, Head(s)), acc)

RSplitWhitespace(s) == RSplitWs(s, <<>>, <<>>)

Repeat(x, n) == [i \in 1..n |-> x]

\* str::split("\n\n"): the matches are taken left to right without overlap,
\* so a run of n newlines holds n \div 2 separators, with empty pieces
\* between them, and an odd newline left over starts the next piece
RECURSIVE RSplitNN(_, _, _)
RSplitNN(s, cur, acc) ==
    IF s = <<>> THEN Append(acc, cur)
    ELSE IF Head(s).c = "\n" /\ Head(s).n >= 2
         THEN RSplitNN(Tail(s),
                       IF Head(s).n % 2 = 1 THEN <<Run("\n", 1)>> ELSE <<>>,
                       Append(acc, cur) \o Repeat(<<>>, (Head(s).n \div 2) - 1))
         ELSE RSplitNN(Tail(s), RCat(cur, <<Head(s)>>), acc)

RSplitParagraphs(text) == RSplitNN(text, <<>>, <<>>)

----------------------------------------------------------------------------
(* File-backed vector store (src/local_vector_store.rs)                    *)

EmbeddingDimension == 384

DocumentChunk(id, content, source, metadata, embedding) ==
    [id |-> id, content |-> content, source |-> source, metadata |-> metadata,
     embedding |-> embedding]

\* generate_embeddings: the 384 floats are computed from the list of the
\* lower-cased words of the text and from nothing else; the model keeps
\* that list in their place
Lvs_generate_embeddings(text) == RSplitWhitespace(RToLower(text))

\* serde_json of one DocumentChunk: an object with one member per field
ChunkToJson(doc) ==
    ("id" :> doc.id) @@ ("content" :> doc.content) @@ ("source" :> doc.source)
    @@ ("metadata" :> doc.metadata) @@ ("embedding" :> doc.embedding)

ChunkFromJson(obj) ==
    DocumentChunk(obj["id"], obj["content"], obj["source"], obj["metadata"],
                  obj["embedding"])

\* the text save_to_file writes: VectorStoreData as JSON
StoreToJson(docs) ==
    ("documents" :> [i \in 1..Len(docs) |-> ChunkToJson(docs[i])])
    @@ ("embedding_dimension" :> EmbeddingDimension)

\* load_from_file: an empty or cut-off file is not JSON
Lvs_load_from_file(file) ==
    IF file.kind = "full"
    THEN Ok([i \in 1..Len(file.data["documents"]) |->
                ChunkFromJson(file.data["documents"][i])])
    ELSE Err("Json")

\* a save that writes the documents as they were before the push
SaveBeforePush(retained, pushed) == retained

\* index_document saves after the push: the new document is in the file
SaveAfterPush(retained, pushed) == pushed

\* index_document on the documents `docs` and the file `file`: the new
\* documents, the new file, the text it meant to write and what it removed
Lvs_index_one(docs, file, chunk, outcome) ==
    LET indexed_chunk == [chunk EXCEPT
                             !.embedding = Lvs_generate_embeddings(chunk.content)]
        retained == SelectSeq(docs, LAMBDA doc : doc.id # chunk.id)
        pushed == Append(retained, indexed_chunk)
        content == StoreToJson(SaveAfterPush(retained, pushed))
    IN [docs |-> pushed, file |-> FsWrite(file, content, outcome),
        content |-> content,
        replaced |-> {[old |-> docs[i], new |-> indexed_chunk] :
                         i \in {j \in 1..Len(docs) : docs[j].id = chunk.id}}]

\* documents.len()
Lvs_count == Len(lvs_documents)

\* history: the chunk last indexed under each id
RECURSIVE NoteIndexed(_, _)
NoteIndexed(hist, docs) ==
    IF docs = <<>> THEN hist
    ELSE NoteIndexed(HashMapInsert(hist, Head(docs).id, Head(docs)), Tail(docs))

\* LocalVectorStore::new: the documents of the file, or none without a file;
\* a file that does not parse fails the construction
Lvs_new ==
    /\ sys = "lvs"
    /\ LET loadedDocs == Lvs_load_from_file(disk)
       IN IF disk.kind = "absent"
          THEN /\ lvs_documents' = <<>>
               /\ ret' = Returned("new", Ok(Unit))
               /\ alive' = TRUE
          ELSE IF loadedDocs.tag = "Ok"
          THEN /\ lvs_documents' = loadedDocs.val
               /\ ret' = Returned("new", Ok(Unit))
               /\ alive' = TRUE
          ELSE /\ lvs_documents' = <<>>
               /\ ret' = Returned("new", loadedDocs)
               /\ alive' = FALSE
    /\ expect' = NoteIndexed(EmptyMap, lvs_documents')
    /\ args' = [op |-> "new", held |-> lvs_documents, wasAlive |-> alive,
                saved |-> /\ wrote = "ok"
                          /\ ret.tag = "Ok"
                          /\ ret.op \in {"index_document", "index_text_document"}]
    /\ wrote' = "none"
    /\ crash' = NoCrash
    /\ UNCHANGED <<sys, runVars, disk, faults, learnVars, memVars, ragVars, order>>

\* history of an indexing call on the file-backed store
LvsIndexArgs(op, source, content, replaced) ==
    [op |-> op, key |-> source, text |-> content,
     repeat |-> /\ args.op = op /\ args.key = source /\ args.text = content
                /\ ret.tag = "Ok",
     before |-> Lvs_count, replaced |-> replaced]

\* LocalVectorStore::index_document
Lvs_index_document(chunk, outcome) ==
    /\ sys = "lvs" /\ alive /\ Allowed(outcome)
    /\ \E step \in {Lvs_index_one(lvs_documents, disk, chunk, outcome)} :
          /\ lvs_documents' = step.docs
          /\ Len(step.docs) <= MaxChunks
          /\ disk' = step.file
          /\ SaveBookkeeping(step.content, outcome)
          /\ expect' = NoteIndexed(expect, <<step.docs[Len(step.docs)]>>)
          /\ args' = LvsIndexArgs("index_document", chunk.source, chunk.content,
                                  step.replaced)
    /\ ret' = HandlerReturn("index_document", Propagate(SaveResult(outcome)), outcome)
    /\ UNCHANGED <<sys, runVars, learnVars, memVars, ragVars, order>>

----------------------------------------------------------------------------
(* Text indexer over the file-backed store (src/local_document_indexer.rs) *)

SplitThreshold == 1000
MaxParagraphLen == 400
PackTarget == 300
MinParagraphLen == 30
MinSentenceLen == 10

\* md5 is taken to be injective: a digest is named by the bytes it is of,
\* and an id is the digest alone or the digest followed by "-index"
\* format!("{:x}", md5::compute(content))
IdOfContent(content) == [md5 |-> content, index |-> None]
\* format!("{:x}-{}", md5::compute(source), index)
IdOfSource(source, index) == [md5 |-> source, index |-> Some(index)]

Terminators == {".", "!", "?"}
IsAsciiLowercase(c) == c \in {"a", "b"}
IsAsciiDigit(c) == c \in {"1"}

\* split_into_sentences: the loop over the characters.  A run of other
\* characters is pushed at once; a terminator is looked at one by one
RECURSIVE SentencesFrom(_, _, _)
SentencesFrom(chars, current_sentence, sentences) ==
    IF chars = <<>>
    THEN IF RTrim(current_sentence) # <<>>
         THEN Append(sentences, RTrim(current_sentence)) ELSE sentences
    ELSE IF Head(chars).c \notin Terminators
    THEN SentencesFrom(Tail(chars), RCat(current_sentence, <<Head(chars)>>), sentences)
    ELSE LET ch == Head(chars).c
             rest == IF Head(chars).n > 1
                     THEN <<Run(ch, Head(chars).n - 1)>> \o Tail(chars)
                     ELSE Tail(chars)
             pushed == RCat(current_sentence, <<Run(ch, 1)>>)
             is_sentence_end ==
                 IF rest # <<>>
                 THEN ~IsAsciiLowercase(rest[1].c) /\ ~IsAsciiDigit(rest[1].c)
                 ELSE TRUE
         IN IF is_sentence_end /\ RLen(RTrim(pushed)) > MinSentenceLen
            THEN SentencesFrom(rest, <<>>, Append(sentences, RTrim(pushed)))
            ELSE SentencesFrom(rest, pushed, sentences)

\* LocalDocumentIndexer::split_into_sentences
Ldi_split_into_sentences(text) == SentencesFrom(text, <<>>, <<>>)

\* a packing that never starts a new chunk
NeverOverflows(current_chunk, sentence) == FALSE

\* `potential_length > 300 && !current_chunk.is_empty()`
Overflows(current_chunk, sentence) ==
    /\ RLen(current_chunk) + RLen(sentence) + 2 > PackTarget
    /\ current_chunk # <<>>

\* the loop over the sentences of a long paragraph: the chunk texts it pushes
RECURSIVE PackSentences(_, _, _)
PackSentences(sentences, current_chunk, out) ==
    IF sentences = <<>>
    THEN IF RTrim(current_chunk) # <<>> THEN Append(out, current_chunk) ELSE out
    ELSE LET sentence == RTrim(Head(sentences))
         IN IF sentence = <<>>
            THEN PackSentences(Tail(sentences), current_chunk, out)
            ELSE IF Overflows(current_chunk, sentence)
            THEN PackSentences(Tail(sentences), sentence, Append(out, current_chunk))
            ELSE PackSentences(Tail(sentences),
                               RCat(IF current_chunk # <<>>
                                    THEN RCat(current_chunk, <<Run(" ", 1)>>)
                                    ELSE <<>>, sentence),
                               out)

\* `if paragraph.is_empty() || paragraph.len() < 30 { continue; }`
Skipped(paragraph) == paragraph = <<>> \/ RLen(paragraph) < MinParagraphLen

\* the loop over the paragraphs that are not skipped: the chunk texts, in
\* the order pushed
RECURSIVE ChunkTexts(_, _)
ChunkTexts(paragraphs, out) ==
    IF paragraphs = <<>> THEN out
    ELSE LET paragraph == Head(paragraphs)
         IN IF RLen(paragraph) <= MaxParagraphLen
            THEN ChunkTexts(Tail(paragraphs), Append(out, paragraph))
            ELSE ChunkTexts(Tail(paragraphs),
                            out \o PackSentences(Ldi_split_into_sentences(paragraph),
                                                 <<>>, <<>>))

\* the paragraphs of the text, trimmed, without the skipped ones
KeptParagraphs(text) ==
    LET paragraphs == RSplitParagraphs(text)
    IN SelectSeq([i \in 1..Len(paragraphs) |-> RTrim(paragraphs[i])],
                 LAMBDA paragraph : ~Skipped(paragraph))

\* LocalDocumentIndexer::create_chunk
Ldi_create_chunk(content, source, metadata, index) ==
    DocumentChunk(IdOfSource(source, index), RTrim(content), source,
                  ("chunk_index" :> DecStr(index))
                  @@ ("chunk_size" :> DecStr(RLen(content))) @@ metadata,
                  <<>>)

\* LocalDocumentIndexer::split_text_into_chunks
Ldi_split_text_into_chunks(text, source, metadata) ==
    LET texts == ChunkTexts(KeptParagraphs(text), <<>>)
    IN [i \in 1..Len(texts) |-> Ldi_create_chunk(texts[i], source, metadata, i - 1)]

\* index_text_document: the chunks it goes on to index
Ldi_chunks(content, source, metadata) ==
    IF RLen(content) > SplitThreshold
    THEN Ldi_split_text_into_chunks(content, source, metadata)
    ELSE <<DocumentChunk(IdOfContent(content), content, source, metadata, <<>>)>>

\* `for chunk in chunks { self.vector_store.index_document(&chunk)?; }` from
\* chunk k on; the save of chunk failAt has the outcome `outcome`, the saves
\* before it succeed, and the loop ends there
\* the loop's state after one more index_document
AfterIndexOne(st, step) ==
    [docs |-> step.docs, file |-> step.file, before |-> st.file,
     intended |-> step.content, replaced |-> st.replaced \cup step.replaced,
     indexed |-> Append(st.indexed, step.docs[Len(step.docs)])]

RECURSIVE IndexAll(_, _, _, _, _)
IndexAll(st, chunks, k, failAt, outcome) ==
    IF k > Len(chunks) THEN st
    ELSE LET st1 == AfterIndexOne(st, Lvs_index_one(st.docs, st.file, chunks[k],
                                      IF k = failAt THEN outcome ELSE "ok"))
         IN IF k = failAt THEN st1 ELSE IndexAll(st1, chunks, k + 1, failAt, outcome)

\* LocalDocumentIndexer::index_text_document
Ldi_index_text_document(content, source, metadata, failAt, outcome) ==
    /\ sys = "lvs" /\ alive /\ Allowed(outcome)
    /\ \E chunks \in {Ldi_chunks(content, source, metadata)} :
       /\ IF outcome = "ok" THEN failAt = 0 ELSE failAt \in 1..Len(chunks)
       /\ \E st \in {IndexAll([docs |-> lvs_documents, file |-> disk,
                                before |-> disk, intended |-> <<>>,
                                replaced |-> {}, indexed |-> <<>>],
                               chunks, 1, failAt, outcome)} :
          /\ lvs_documents' = st.docs
          /\ Len(st.docs) <= MaxChunks
          /\ disk' = st.file
          /\ wrote' = IF chunks = <<>> THEN "none" ELSE outcome
          /\ faults' = IF outcome = "ok" THEN faults ELSE faults + 1
          /\ alive' = (outcome \notin CrashPoints)
          /\ crash' = IF outcome \in CrashPoints
                      THEN [happened |-> TRUE, before |-> st.before,
                            intended |-> st.intended]
                      ELSE crash
          /\ expect' = NoteIndexed(expect, st.indexed)
          /\ args' = LvsIndexArgs("index_text_document", source, content, st.replaced)
    /\ ret' = HandlerReturn("index_text_document", Propagate(SaveResult(outcome)),
                            outcome)
    /\ UNCHANGED <<sys, runVars, learnVars, memVars, ragVars, order>>

\* the texts given to the indexers: sentences "Aaa...a." of n characters
Sent(n) == <<Run("A", 1), Run("a", n - 2), Run(".", 1)>>

\* sentences joined by one space
RECURSIVE Join(_)
Join(sentences) ==
    IF Len(sentences) = 1 THEN sentences[1]
    ELSE RCat(RCat(Head(sentences), <<Run(" ", 1)>>), Join(Tail(sentences)))

\* paragraphs joined by `gap` newlines
RECURSIVE JoinParagraphs(_, _)
JoinParagraphs(paragraphs, gap) ==
    IF Len(paragraphs) = 1 THEN paragraphs[1]
    ELSE RCat(RCat(Head(paragraphs), <<Run("\n", gap)>>),
              JoinParagraphs(Tail(paragraphs), gap))

ParaTiny == Sent(20)
ParaWhole == Join(<<Sent(200), Sent(150)>>)
ParaThree == Join(<<Sent(250), Sent(250), Sent(200)>>)
ParaOneLong == Sent(700)
ParaFragment == Join(<<Sent(5), Sent(600)>>)
ParaFive == Join(<<Sent(100), Sent(100), Sent(100), Sent(100), Sent(100)>>)
ParaDecimal == Join(<<<<Run("A", 1), Run("a", 150), Run(".", 1), Run("1", 1),
                        Run("a", 150), Run("!", 1)>>, Sent(150)>>)
ParagraphKinds == {ParaTiny, ParaWhole, ParaThree, ParaOneLong, ParaFragment,
                   ParaFive, ParaDecimal}

SrcA == <<Run("a", 1)>>
SrcB == <<Run("b", 1)>>
Sources == {SrcA, SrcB}
MetaGuide == [type |-> <<"g">>]
MetaNote == [type |-> <<"n">>]

TShort == Sent(5)
TLongFour == JoinParagraphs(<<ParaWhole, ParaThree>>, 2)
TLongTwo == JoinParagraphs(<<Sent(390), ParaOneLong>>, 2)
TBlank == <<Run("\n", 1001)>>
\* the calls of index_text_document: (content, source)
LdiCalls == {<<TShort, SrcA>>, <<TShort, SrcB>>, <<TLongFour, SrcA>>,
             <<TLongTwo, SrcA>>, <<TBlank, SrcB>>}

\* the chunks handed to index_document directly: the ones index_text_document
\* makes of the short text under two sources, with different metadata
LvsChunks == {DocumentChunk(IdOfContent(TShort), TShort, SrcA, MetaGuide, <<>>),
              DocumentChunk(IdOfContent(TShort), TShort, SrcB, MetaNote, <<>>)}

\* the texts the splitter is applied to: up to MaxParagraphs paragraphs,
\* put together with two or three newlines
ParagraphLists == UNION {[1..n -> ParagraphKinds] : n \in 1..MaxParagraphs}
SplitTexts == {JoinParagraphs(ps, gap) : ps \in ParagraphLists, gap \in {2, 3}}
                 \cup {TBlank}

\* the saves of one index_text_document call that a write outcome other
\* than success can fall on (0: on none)
FailPoints(content, source, metadata, outcome) ==
    IF outcome = "ok" \/ ~Allowed(outcome) THEN {0}
    ELSE 1..Len(Ldi_chunks(content, source, metadata))

\* index_text_document up to the store: the chunks made of the text
Ldi_chunk_text ==
    /\ sys = "split" /\ ret.op = "none"
    /\ ret' = Returned("chunks", Ok(Ldi_chunks(args.text, args.key, MetaGuide)))
    /\ UNCHANGED <<procVars, runVars, learnVars, docVars>>

----------------------------------------------------------------------------
(* Claims about the document stores and the indexers                       *)

\* C2: after any sequence of store, store_batch, delete and clear (and of
\* index_document on the file-backed store), count() is the number of distinct
\* ids stored and not removed since, and get(id) is exactly the document of
\* the most recent store of that id, with nothing kept from an earlier one.
C2_StoreHoldsLastDocument ==
    /\ sys = "mem" =>
          /\ Mem_count = Cardinality(DOMAIN expect)
          /\ \A id \in DOMAIN documents \cup DOMAIN expect \cup DeleteIds :
                Mem_get(id) = HashMapGet(expect, id)
    /\ sys = "lvs" =>
          /\ Lvs_count = Cardinality(DOMAIN expect)
          /\ \A id \in DOMAIN expect :
                \E i \in 1..Lvs_count : lvs_documents[i] = expect[id]

\* C2 witness: a batch stored DocX1 and then DocX2 under the same id, next
\* to a document under another id
C2_Witness ==
    /\ sys = "mem" /\ ret.op = "store_batch" /\ ret.val = <<IdX, IdX>>
    /\ Mem_count = 2
    /\ Mem_get(IdX) = Some(DocX2)
    /\ Mem_get(IdY) = Some(DocY1)

\* the number of documents of the store the run is about
StoreCount == IF sys = "mem" THEN Mem_count ELSE Lvs_count

\* C3: indexing the same text again under the same source id (the same
\* Document id, the same source, the same path) leaves the document count
\* as it was, for index_document, index_text_document and index_from_file.
C3_ReindexKeepsCount ==
    (/\ args.op \in {"index_document", "index_text_document", "index_from_file"}
     /\ args.repeat)
        => StoreCount = args.before

\* C4: search returns at most top_k documents, each at or above the
\* threshold when one is set, best score first, and leaves out no stored
\* document that meets the threshold and scores strictly more than a
\* returned one.
C4_SearchRanksTopK ==
    (sys = "mem" /\ ret.op = "search") =>
        LET res == ret.val.documents
            cfg == args.config
            ScoreOf(id) == TextSimilarity(args.query, documents[id].content)
            Meets(score) == cfg.score_threshold # None =>
                               ScoreGe(score, cfg.score_threshold[1])
            returned == {res[i].id : i \in 1..Len(res)}
        IN /\ Len(res) <= cfg.top_k
           /\ ret.val.total = Len(res)
           /\ \A i \in 1..Len(res) :
                 /\ res[i].id \in DOMAIN documents
                 /\ res[i].score = Some(ScoreOf(res[i].id))
                 /\ Meets(res[i].score[1])
           /\ \A i, j \in 1..Len(res) :
                 i < j => ScoreGe(res[i].score[1], res[j].score[1])
           /\ \A id \in DOMAIN documents \ returned :
                 ~(/\ Meets(ScoreOf(id))
                   /\ \E i \in 1..Len(res) : ScoreGt(ScoreOf(id), res[i].score[1]))

\* C4 witness: of two stored documents that both meet the threshold, a
\* search with top_k = 1 returned the better and left the other out
C4_Witness ==
    /\ sys = "mem" /\ ret.op = "search"
    /\ args.config = [top_k |-> 1, score_threshold |-> Some(<<1, 2>>)]
    /\ Mem_count = 2
    /\ Len(ret.val.documents) = 1
    /\ ret.val.documents[1].score = Some(<<2, 2>>)
    /\ \E id \in DOMAIN documents :
          /\ id # ret.val.documents[1].id
          /\ TextSimilarity(args.query, documents[id].content) = <<1, 2>>

\* the place of an id in the order of insertion
PlaceOf(id) == CHOOSE k \in 1..Len(order) : order[k] = id

\* C11: two stored documents with the same score for a query are returned
\* by search in the order in which they were first inserted into the store.
C11_TiesInInsertionOrder ==
    (sys = "mem" /\ ret.op = "search") =>
        LET res == ret.val.documents
        IN \A i, j \in 1..Len(res) :
              (/\ i < j
               /\ ScoreGe(res[i].score[1], res[j].score[1])
               /\ ScoreGe(res[j].score[1], res[i].score[1]))
                  => PlaceOf(res[i].id) < PlaceOf(res[j].id)

C9_ChunkIdsUniquePerCorpus ==
    (sys = "lvs" /\ args.op \in {"index_document", "index_text_document"}) =>
        \A r \in args.replaced :
            r.old.source = r.new.source /\ r.old.content = r.new.content

\* the sentence splitter leaves the text in one piece
IsOneSentence(text) == Len(Ldi_split_into_sentences(text)) = 1

\* the characters of a text that are not whitespace
RECURSIVE Ink(_)
Ink(text) ==
    IF text = <<>> THEN 0
    ELSE (IF IsWhitespace(Head(text).c) THEN 0 ELSE Head(text).n) + Ink(Tail(text))

RECURSIVE SumInk(_)
SumInk(texts) == IF texts = <<>> THEN 0 ELSE Ink(Head(texts)) + SumInk(Tail(texts))

\* every chunk is at most 400 characters or a single sentence
ChunksWithinTarget ==
    \A i \in 1..Len(ret.val) :
        \/ RLen(ret.val[i].content) <= MaxParagraphLen
        \/ IsOneSentence(ret.val[i].content)

----------------------------------------------------------------------------
(* RAG engine over the Qdrant collection (src/rag.rs, src/vector_store.rs)  *)
(* The collection is searched by Qdrant with the cosine distance: the model *)
(* ranks the points by the cosine of the embeddings generate_embeddings     *)
(* gives, taking no two words or bigrams to share a hashed dimension.       *)

\* vector_store::DocumentChunk
RagChunk(id, content, source) ==
    [id |-> id, content |-> content, source |-> source, metadata |-> EmptyMap]

\* the sources of the model: two pages and a local file
SrcCliDocs ==
    <<"h", "t", "t", "p", "s", ":", "/", "/", "c", "l", "o", "u", "d",
      ".", "i", "b", "m", ".", "c", "o", "m", "/", "d", "o", "c", "s",
      "/", "c", "l", "i">>
SrcWatsonx ==
    <<"h", "t", "t", "p", "s", ":", "/", "/", "w", "a", "t", "s", "o",
      "n", "x", ".", "a", "i", "/", "d", "o", "c", "s">>
SrcNotes ==
    <<"d", "o", "c", "s", "/", "n", "o", "t", "e", "s", ".", "m", "d">>
WordList ==
    <<"l", "i", "s", "t">>
WordApps ==
    <<"a", "p", "p", "s">>
WordDeploy ==
    <<"d", "e", "p", "l", "o", "y">>

\* the points the collection may hold
ChunkList == RagChunk(<<"1">>, WordList, SrcNotes)
ChunkApps == RagChunk(<<"2">>, WordApps, SrcWatsonx)
ChunkListCli == RagChunk(<<"3">>, <<"L", "i", "s", "t", "!">>, SrcCliDocs)
RagChunks == {ChunkList, ChunkApps, ChunkListCli}

\* the queries and prompts of the model; "deploy" is one the engine expands
RagQueries == {WordList, WordApps, WordDeploy}
RagPrompts == {<<"g", "o">>, <<>>}

\* the largest max_context_chunks the model configures
MaxContextChunks == 2
\* the configurations update_config is given
RagConfigs ==
    [max_context_chunks : 0..MaxContextChunks, similarity_threshold : {<<7, 10>>},
     context_window_size : {30, 60, 2000}, enable_query_expansion : BOOLEAN,
     prioritize_recent : {FALSE}]

PatIbmcloud ==
    <<"i", "b", "m", "c", "l", "o", "u", "d">>
PatIc ==
    <<"i", "c">>
PatLogin ==
    <<"l", "o", "g", "i", "n">>
PatAuth ==
    <<"a", "u", "t", "h">>
PatDeploy ==
    <<"d", "e", "p", "l", "o", "y">>
PatFunction ==
    <<"f", "u", "n", "c", "t", "i", "o", "n">>
PatServerless ==
    <<"s", "e", "r", "v", "e", "r", "l", "e", "s", "s">>
PatKubernetes ==
    <<"k", "u", "b", "e", "r", "n", "e", "t", "e", "s">>
PatK8s ==
    <<"k", "8", "s">>
ExpandCli ==
    <<" ", "C", "L", "I", " ", "c", "o", "m", "m", "a", "n", "d", " ",
      "l", "i", "n", "e", " ", "i", "n", "t", "e", "r", "f", "a", "c",
      "e">>
ExpandAuth ==
    <<" ", "a", "u", "t", "h", "e", "n", "t", "i", "c", "a", "t", "i",
      "o", "n", " ", "c", "r", "e", "d", "e", "n", "t", "i", "a", "l",
      "s", " ", "A", "P", "I", " ", "k", "e", "y">>
ExpandDeploy ==
    <<" ", "d", "e", "p", "l", "o", "y", "m", "e", "n", "t", " ", "a",
      "p", "p", "l", "i", "c", "a", "t", "i", "o", "n", " ", "s", "e",
      "r", "v", "i", "c", "e">>
ExpandFunctions ==
    <<" ", "O", "p", "e", "n", "W", "h", "i", "s", "k", " ", "C", "l",
      "o", "u", "d", " ", "F", "u", "n", "c", "t", "i", "o", "n", "s">>
ExpandKubernetes ==
    <<" ", "c", "o", "n", "t", "a", "i", "n", "e", "r", " ", "c", "l",
      "u", "s", "t", "e", "r", " ", "I", "K", "S">>

\* RAGEngine::expand_query
ExpandQuery(query) ==
    query
    \o (IF Contains(query, PatIbmcloud) \/ Contains(query, PatIc)
        THEN ExpandCli ELSE <<>>)
    \o (IF Contains(query, PatLogin) \/ Contains(query, PatAuth)
        THEN ExpandAuth ELSE <<>>)
    \o (IF Contains(query, PatDeploy) THEN ExpandDeploy ELSE <<>>)
    \o (IF Contains(query, PatFunction) \/ Contains(query, PatServerless)
        THEN ExpandFunctions ELSE <<>>)
    \o (IF Contains(query, PatKubernetes) \/ Contains(query, PatK8s)
        THEN ExpandKubernetes ELSE <<>>)

PatCliDocs ==
    <<"c", "l", "o", "u", "d", ".", "i", "b", "m", ".", "c", "o", "m",
      "/", "d", "o", "c", "s", "/", "c", "l", "i">>
PatWatsonx ==
    <<"w", "a", "t", "s", "o", "n", "x">>
PatIbmCom ==
    <<"c", "l", "o", "u", "d", ".", "i", "b", "m", ".", "c", "o", "m">>
PatCarbon ==
    <<"c", "a", "r", "b", "o", "n", "d", "e", "s", "i", "g", "n", "s",
      "y", "s", "t", "e", "m", ".", "c", "o", "m">>

\* RAGEngine::get_source_priority
GetSourcePriority(source) ==
    IF Contains(source, PatCliDocs) THEN 10
    ELSE IF Contains(source, PatWatsonx) THEN 8
    ELSE IF Contains(source, PatIbmCom) THEN 7
    ELSE IF Contains(source, PatCarbon) THEN 5
    ELSE 3

\* char::is_alphanumeric, for the characters of the model
Alphanumerics ==
    {"0", "1", "2", "3", "4", "5", "6", "7", "8", "9", "A", "B", "C",
     "D", "E", "F", "G", "H", "I", "J", "K", "L", "M", "N", "O", "P",
     "Q", "R", "S", "T", "U", "V", "W", "X", "Y", "Z", "a", "b", "c",
     "d", "e", "f", "g", "h", "i", "j", "k", "l", "m", "n", "o", "p",
     "q", "r", "s", "t", "u", "v", "w", "x", "y", "z"}

\* generate_embeddings: lower case, only alphanumerics and whitespace kept
NormalizeText(text) ==
    SelectSeq(ToLower(text), LAMBDA c : c \in Alphanumerics \/ IsWhitespace(c))

EmbeddingWords(text) == SplitWhitespace(NormalizeText(text))

\* weights are held in twentieths: 20 is the f32 1.0
WeightScale == 20
\* `1.0 / (1.0 + i as f32 * 0.1)`; exact for the first word, the only one the
\* stored texts of the model have
PositionWeight(i) == (WeightScale * 10) \div (10 + i)
\* `embeddings[idx] += 0.3`, squared
BigramWeightSquared == 36

RECURSIVE SumSeq(_)
SumSeq(xs) == IF xs = <<>> THEN 0 ELSE Head(xs) + SumSeq(Tail(xs))

\* the dot product of the embeddings of two word lists before normalising:
\* a word adds its weight to its own dimension and, when longer than 3, half
\* of it to a second one; a bigram adds 0.3 to its own dimension
EmbeddingDot(a, b) ==
    LET wordTerm(i, j) ==
            IF a[i] = b[j]
            THEN LET w == PositionWeight(i - 1) * PositionWeight(j - 1)
                 IN w + (IF Len(a[i]) > 3 THEN w \div 4 ELSE 0)
            ELSE 0
        bigramTerm(i, j) ==
            IF i < Len(a) /\ j < Len(b) /\ a[i] = b[j] /\ a[i + 1] = b[j + 1]
            THEN BigramWeightSquared ELSE 0
    IN SumSeq([k \in 1..(Len(a) * Len(b)) |->
                  LET i == ((k - 1) \div Len(b)) + 1
                      j == ((k - 1) % Len(b)) + 1
                  IN wordTerm(i, j) + bigramTerm(i, j)])

\* the cosine of query and content, squared, times the squared length of the
\* query's embedding: enough to rank the contents for one query
RankKey(query, content) ==
    LET q == EmbeddingWords(query)
        d == EmbeddingWords(content)
        dd == EmbeddingDot(d, d)
    IN IF dd = 0 THEN <<0, 1>> ELSE <<EmbeddingDot(q, d) * EmbeddingDot(q, d), dd>>

\* is the cosine of query and content at least the fraction threshold?
CosineAtLeast(query, content, threshold) ==
    LET q == EmbeddingWords(query)
        d == EmbeddingWords(content)
        qd == EmbeddingDot(q, d)
    IN threshold[2] * threshold[2] * qd * qd
          >= threshold[1] * threshold[1] * EmbeddingDot(q, q) * EmbeddingDot(d, d)

\* the points in descending order of their score; points of equal score stay
\* in the order given
RECURSIVE SortByCosineDesc(_, _)
SortByCosineDesc(points, query) ==
    IF points = <<>> THEN <<>>
    ELSE LET init == SortByCosineDesc(SubSeq(points, 1, Len(points) - 1), query)
             p == points[Len(points)]
             k == Cardinality({i \in 1..Len(init) :
                     FracGe(RankKey(query, init[i].content), RankKey(query, p.content))})
         IN SubSeq(init, 1, k) \o <<p>> \o SubSeq(init, k + 1, Len(init))

\* VectorStore::search(query, limit): the `limit` best points, best first;
\* `points` is the collection in the order Qdrant breaks ties
VectorStoreSearch(points, query, limit) ==
    Truncate(SortByCosineDesc(points, query), limit)

\* `sort_by(|a, b| priority_b.cmp(&priority_a))`: stable, highest priority first
RECURSIVE SortByPriorityDesc(_)
SortByPriorityDesc(chunks) ==
    IF chunks = <<>> THEN <<>>
    ELSE LET init == SortByPriorityDesc(SubSeq(chunks, 1, Len(chunks) - 1))
             c == chunks[Len(chunks)]
             k == Cardinality({i \in 1..Len(init) :
                     GetSourcePriority(init[i].source) >= GetSourcePriority(c.source)})
         IN SubSeq(init, 1, k) \o <<c>> \o SubSeq(init, k + 1, Len(init))

Http ==
    <<"h", "t", "t", "p">>
SchemeEnd ==
    <<":", "/", "/">>

\* the index of the first occurrence of needle in hay, 0 when there is none
IndexOf(hay, needle) ==
    IF Contains(hay, needle)
    THEN CHOOSE i \in 1..Len(hay) :
            /\ i + Len(needle) - 1 <= Len(hay)
            /\ SubSeq(hay, i, i + Len(needle) - 1) = needle
            /\ \A j \in 1..(i - 1) : SubSeq(hay, j, j + Len(needle) - 1) # needle
    ELSE 0

\* `source.split('/').last()`
LastSegment(source) ==
    LET slashes == {i \in 1..Len(source) : source[i] = "/"}
    IN IF slashes = {} THEN source
       ELSE SubSeq(source, (CHOOSE i \in slashes : \A j \in slashes : j <= i) + 1,
                   Len(source))

\* RAGEngine::extract_source_name; Url::parse is modelled for sources of the
\* form scheme://host/path, whose path is "/" when the source has none
ExtractSourceName(source) ==
    IF StartsWith(source, Http) /\ Contains(source, SchemeEnd)
    THEN LET rest == SubSeq(source, IndexOf(source, SchemeEnd) + Len(SchemeEnd),
                            Len(source))
         IN IF Contains(rest, <<"/">>) THEN rest ELSE rest \o <<"/">>
    ELSE LastSegment(source)

SummaryHeadOpen ==
    <<"\n", "=", "=", "=", " ", "R", "E", "L", "E", "V", "A", "N", "T",
      " ", "C", "O", "N", "T", "E", "X", "T", " ", "F", "O", "R", ":",
      " ">>
SummaryHeadClose ==
    <<" ", "=", "=", "=", "\n">>
TruncationMarker ==
    <<"\n", "[", ".", ".", ".", "]", " ", "(", "A", "d", "d", "i", "t",
      "i", "o", "n", "a", "l", " ", "c", "o", "n", "t", "e", "x", "t",
      " ", "t", "r", "u", "n", "c", "a", "t", "e", "d", " ", "t", "o",
      " ", "f", "i", "t", " ", "w", "i", "n", "d", "o", "w", ")", "\n">>
ChunkSeparator ==
    <<"\n", "-", "-", "-", "\n">>
SummaryFooter ==
    <<"\n", "=", "=", "=", " ", "E", "N", "D", " ", "C", "O", "N", "T",
      "E", "X", "T", " ", "=", "=", "=", "\n">>
SourceLabel ==
    <<"]", " ", "S", "o", "u", "r", "c", "e", ":", " ">>

\* format!("\n[{}] Source: {}\n{}", i + 1, name, content), i counted from 1 here
ChunkText(chunk, i) ==
    <<"\n", "[">> \o DecStr(i) \o SourceLabel \o ExtractSourceName(chunk.source)
    \o <<"\n">> \o chunk.content

\* create_context_summary: the loop from chunk i on
RECURSIVE SummaryFrom(_, _, _, _)
SummaryFrom(chunks, i, current_length, max_length) ==
    IF i > Len(chunks) THEN <<>>
    ELSE LET chunk_text == ChunkText(chunks[i], i)
         IN IF current_length + Len(chunk_text) > max_length
            THEN TruncationMarker
            ELSE chunk_text
                 \o (IF i < Len(chunks) THEN ChunkSeparator ELSE <<>>)
                 \o SummaryFrom(chunks, i + 1, current_length + Len(chunk_text),
                                max_length)

\* RAGEngine::create_context_summary
CreateContextSummary(chunks, query, cfg) ==
    IF chunks = <<>> THEN <<>>
    ELSE SummaryHeadOpen \o query \o SummaryHeadClose
         \o SummaryFrom(chunks, 1, 0, cfg.context_window_size)
         \o SummaryFooter

\* calculate_confidence_score, as the fraction <<numerator, denominator>>
CalculateConfidenceScore(chunks, query) ==
    IF chunks = <<>> THEN <<0, 1>>
    ELSE LET query_words == SplitWhitespace(ToLower(query))
             overlap(chunk) ==
                 LET chunk_words == SplitWhitespace(ToLower(chunk.content))
                 IN Cardinality({i \in 1..Len(query_words) :
                        \E k \in 1..Len(chunk_words) : chunk_words[k] = query_words[i]})
             total == SumSeq([i \in 1..Len(chunks) |->
                         overlap(chunks[i]) * GetSourcePriority(chunks[i].source)])
             den == Len(query_words) * 10 * Len(chunks)
         IN IF total > den THEN <<1, 1>> ELSE <<total, den>>

\* retrieve_context, the collection taken in the order `points`
RetrieveContext(points, query, cfg) ==
    LET search_query == IF cfg.enable_query_expansion THEN ExpandQuery(query)
                        ELSE query
        found == VectorStoreSearch(points, search_query, cfg.max_context_chunks)
        relevant_chunks == SortByPriorityDesc(found)
    IN [relevant_chunks |-> relevant_chunks,
        context_summary |-> CreateContextSummary(relevant_chunks, query, cfg),
        confidence_score |-> CalculateConfidenceScore(relevant_chunks, query),
        sources_used |-> {relevant_chunks[i].source : i \in 1..Len(relevant_chunks)}]

\* the query the store was searched with
SearchQueryOf(query, cfg) ==
    IF cfg.enable_query_expansion THEN ExpandQuery(query) ELSE query

\* RAGEngine::retrieve_context
Rag_retrieve_context(query) ==
    /\ sys = "rag"
    /\ \E points \in Orderings(collection) :
          ret' = Returned("retrieve_context", Ok(RetrieveContext(points, query, rag_config)))
    /\ args' = [op |-> "retrieve_context", query |-> query,
                search_query |-> SearchQueryOf(query, rag_config)]
    /\ UNCHANGED <<procVars, runVars, learnVars, memVars, lvsVars, ragVars, expect, order>>

PromptLead ==
    <<"\n", "\n", "B", "a", "s", "e", "d", " ", "o", "n", " ", "t", "h",
      "e", " ", "a", "b", "o", "v", "e", " ", "d", "o", "c", "u", "m",
      "e", "n", "t", "a", "t", "i", "o", "n", " ", "c", "o", "n", "t",
      "e", "x", "t", ",", " ", "p", "l", "e", "a", "s", "e", " ">>
PromptTail ==
    <<"\n", "\n", "E", "n", "s", "u", "r", "e", " ", "y", "o", "u", "r",
      " ", "r", "e", "s", "p", "o", "n", "s", "e", " ", "i", "s", " ",
      "a", "c", "c", "u", "r", "a", "t", "e", " ", "a", "n", "d", " ",
      "r", "e", "f", "e", "r", "e", "n", "c", "e", "s", " ", "t", "h",
      "e", " ", "p", "r", "o", "v", "i", "d", "e", "d", " ", "d", "o",
      "c", "u", "m", "e", "n", "t", "a", "t", "i", "o", "n", " ", "w",
      "h", "e", "n", " ", "r", "e", "l", "e", "v", "a", "n", "t", ".">>

\* enhance_prompt: what is returned for a retrieved context
EnhancedPrompt(context, original_prompt) ==
    IF context.relevant_chunks = <<>> THEN original_prompt
    ELSE context.context_summary \o PromptLead \o original_prompt \o PromptTail

\* RAGEngine::enhance_prompt
Rag_enhance_prompt(original_prompt, query) ==
    /\ sys = "rag"
    /\ \E points \in Orderings(collection) :
          \E context \in {RetrieveContext(points, query, rag_config)} :
              /\ ret' = Returned("enhance_prompt", Ok(EnhancedPrompt(context, original_prompt)))
              /\ args' = [op |-> "enhance_prompt", prompt |-> original_prompt,
                          query |-> query,
                          retrieved |-> Len(context.relevant_chunks),
                          context |-> context.context_summary]
    /\ UNCHANGED <<procVars, runVars, learnVars, memVars, lvsVars, ragVars, expect, order>>

\* RAGEngine::update_config
Rag_update_config(cfg) ==
    /\ sys = "rag"
    /\ rag_config' = cfg
    /\ ret' = Returned("update_config", Ok(Unit))
    /\ args' = NoArgs
    /\ UNCHANGED <<procVars, runVars, learnVars, memVars, lvsVars, collection, initialized,
                   expect, order>>

\* C17: retrieve_context never places a chunk with a higher similarity to the
\* query it searched with after a chunk with a lower one, whatever the sources.
C17_SimilarityIsPrimaryKey ==
    (sys = "rag" /\ ret.op = "retrieve_context") =>
        LET chunks == ret.val.relevant_chunks
        IN \A i, j \in 1..Len(chunks) :
              i < j => FracGe(RankKey(args.search_query, chunks[i].content),
                              RankKey(args.search_query, chunks[j].content))

\* C18: the context summary retrieve_context builds has at most
\* context_window_size characters.
C18_SummaryWithinWindow ==
    (sys = "rag" /\ ret.op = "retrieve_context") =>
        Len(ret.val.context_summary) <= rag_config.context_window_size

\* C19: retrieve_context returns at most max_context_chunks chunks, and none
\* whose similarity to the query searched with is below similarity_threshold.
C19_SearchLimitsApplied ==
    (sys = "rag" /\ ret.op = "retrieve_context") =>
        LET chunks == ret.val.relevant_chunks
        IN /\ Len(chunks) <= rag_config.max_context_chunks
           /\ \A i \in 1..Len(chunks) :
                 CosineAtLeast(args.search_query, chunks[i].content,
                               rag_config.similarity_threshold)

----------------------------------------------------------------------------
(* RAG engine over the in-memory store (crates/cuc-rag/src/engine.rs)      *)

BasicKnowledgeId ==
    <<"b", "a", "s", "i", "c", "_", "k", "n", "o", "w", "l", "e", "d",
      "g", "e", "_">>
Documentation ==
    <<"d", "o", "c", "u", "m", "e", "n", "t", "a", "t", "i", "o", "n">>

\* add_basic_knowledge: (content, title, category); each content is cut to
\* its first three words
BasicKnowledge ==
    <<<<<<"I", "B", "M", " ", "C", "l", "o", "u", "d", " ", "C", "L", "I">>,
        <<"I", "B", "M", " ", "C", "l", "o", "u", "d", " ", "C", "L", "I",
          " ", "O", "v", "e", "r", "v", "i", "e", "w">>,
        <<"b", "a", "s", "i", "c", "_", "k", "n", "o", "w", "l", "e", "d",
          "g", "e">>>>,
      <<<<"T", "o", " ", "i", "n", "s", "t", "a", "l", "l", " ", "I", "B",
          "M">>,
        <<"I", "B", "M", " ", "C", "l", "o", "u", "d", " ", "C", "L", "I",
          " ", "I", "n", "s", "t", "a", "l", "l", "a", "t", "i", "o", "n">>,
        <<"i", "n", "s", "t", "a", "l", "l", "a", "t", "i", "o", "n", "_",
          "g", "u", "i", "d", "e">>>>,
      <<<<"C", "o", "m", "m", "o", "n", " ", "I", "B", "M", " ", "C", "l",
          "o", "u", "d">>,
        <<"I", "B", "M", " ", "C", "l", "o", "u", "d", " ", "C", "L", "I",
          " ", "C", "o", "m", "m", "a", "n", "d", "s">>,
        <<"c", "o", "m", "m", "a", "n", "d", "_", "r", "e", "f", "e", "r",
          "e", "n", "c", "e">>>>,
      <<<<"I", "B", "M", " ", "C", "l", "o", "u", "d", " ", "C", "L", "I">>,
        <<"I", "B", "M", " ", "C", "l", "o", "u", "d", " ", "C", "L", "I",
          " ", "P", "l", "u", "g", "i", "n", "s">>,
        <<"p", "l", "u", "g", "i", "n", "_", "g", "u", "i", "d", "e">>>>,
      <<<<"T", "o", " ", "m", "a", "n", "a", "g", "e", " ", "C", "l", "o",
          "u", "d">>,
        <<"C", "l", "o", "u", "d", " ", "F", "o", "u", "n", "d", "r", "y",
          " ", "M", "a", "n", "a", "g", "e", "m", "e", "n", "t">>,
        <<"c", "f", "_", "c", "o", "m", "m", "a", "n", "d", "s">>>>,
      <<<<"I", "B", "M", " ", "C", "l", "o", "u", "d", " ", "C", "L", "I">>,
        <<"I", "B", "M", " ", "C", "l", "o", "u", "d", " ", "C", "L", "I",
          " ", "O", "u", "t", "p", "u", "t", " ", "F", "o", "r", "m", "a",
          "t", "s">>,
        <<"o", "u", "t", "p", "u", "t", "_", "f", "o", "r", "m", "a", "t",
          "t", "i", "n", "g">>>>>>

\* add_basic_knowledge: the Document built from entry i (counted from 0)
BasicDocument(i) ==
    Document(BasicKnowledgeId \o DecStr(i), BasicKnowledge[i + 1][2],
             BasicKnowledge[i + 1][1], None,
             [category |-> BasicKnowledge[i + 1][3], type |-> Documentation])

\* index_documents: every document indexed in turn
RECURSIVE IndexDocuments(_, _, _)
IndexDocuments(m, docs, cfg) ==
    IF docs = <<>> THEN m
    ELSE IndexDocuments(InsertDocs(m, IndexedDocs(Head(docs), cfg)), Tail(docs), cfg)

\* an initialize that does not ask whether the store is connected
InitializeUnchecked(is_connected) == Ok(Unit)

\* initialize: `if !self.vector_store.is_connected() { return Err(..) }`
InitializeCheck(is_connected) ==
    IF ~is_connected THEN Err("RAGEngine") ELSE Ok(Unit)

\* LocalRAGEngine::initialize
Lre_initialize ==
    /\ sys = "lre"
    /\ IF InitializeCheck(connected).tag = "Err"
       THEN /\ ret' = Returned("initialize", InitializeCheck(connected))
            /\ UNCHANGED <<documents, initialized, succeeded>>
       ELSE /\ documents' = IndexDocuments(documents,
                                [i \in 1..Len(BasicKnowledge) |-> BasicDocument(i - 1)],
                                config)
            /\ initialized' = TRUE
            /\ succeeded' = TRUE
            /\ ret' = Returned("initialize", Ok(Unit))
    /\ args' = NoArgs
    /\ UNCHANGED <<procVars, sources, concVars, embedVars, chunkVars, learnVars,
                   connected, config, lvsVars, rag_config, collection, expect, order>>

\* LocalRAGEngine::is_ready
Lre_is_ready == initialized /\ connected

ContextTitle ==
    <<"R", "e", "l", "e", "v", "a", "n", "t", " ", "I", "B", "M", " ",
      "C", "l", "o", "u", "d", " ", "C", "L", "I", " ", "d", "o", "c",
      "u", "m", "e", "n", "t", "a", "t", "i", "o", "n", ":", "\n", "\n">>
ContextRule ==
    <<"\n", "-", "-", "-", "\n", "\n">>
PromptIntro ==
    <<"B", "a", "s", "e", "d", " ", "o", "n", " ", "t", "h", "e", " ",
      "a", "b", "o", "v", "e", " ", "d", "o", "c", "u", "m", "e", "n",
      "t", "a", "t", "i", "o", "n", ",", " ">>

\* build_context: the entry of document i (counted from 1) and those after it
RECURSIVE ContextEntries(_, _)
ContextEntries(docs, i) ==
    IF i > Len(docs) THEN <<>>
    ELSE DecStr(i) \o <<".", " ">>
         \o (IF "title" \in DOMAIN docs[i].metadata
             THEN <<"[">> \o docs[i].metadata["title"] \o <<"]", " ">>
             ELSE <<>>)
         \o docs[i].content \o <<"\n", "\n">>
         \o ContextEntries(docs, i + 1)

\* LocalRAGEngine::build_context
BuildContext(docs) ==
    IF docs = <<>> THEN <<>> ELSE ContextTitle \o ContextEntries(docs, 1)

\* RAGQuery: what the engine is asked; the default asks for score 0.7
RagQuery(query, top_k, score_threshold) ==
    [query |-> query, top_k |-> top_k, score_threshold |-> score_threshold,
     filters |-> None]
LreQueries ==
    {RagQuery(q, k, t) : q \in {<<"c", "l", "i">>, <<"z", "z", "z">>},
                         k \in {0, 1}, t \in {None, Some(<<7, 10>>)}}

\* retrieve: the search of the store and the context built from its result
Retrieve(values, query) ==
    LET search_result == SearchResults(values, query.query,
                             [top_k |-> query.top_k,
                              score_threshold |-> query.score_threshold])
    IN [documents |-> search_result.documents,
        context |-> BuildContext(search_result.documents)]

\* LocalRAGEngine::retrieve
Lre_retrieve(query) ==
    /\ sys = "lre"
    /\ IF ~initialized
       THEN ret' = Returned("retrieve", Err("RAGEngine"))
       ELSE \E values \in HashMapValues(documents) :
               ret' = Returned("retrieve", Ok(Retrieve(values, query)))
    /\ args' = [op |-> "retrieve", prompt |-> <<>>, query |-> query.query,
                retrieved |-> 0, context |-> <<>>]
    /\ UNCHANGED <<procVars, runVars, learnVars, memVars, lvsVars, ragVars, expect, order>>

\* enhance_prompt: the text put together from the context and the prompt
LreEnhanced(context, prompt) == context \o ContextRule \o PromptIntro \o prompt

\* LocalRAGEngine::enhance_prompt
Lre_enhance_prompt(prompt, query) ==
    /\ sys = "lre"
    /\ IF ~initialized
       THEN /\ ret' = Returned("enhance_prompt", Err("RAGEngine"))
            /\ args' = [op |-> "enhance_prompt", prompt |-> prompt, query |-> query.query,
                        retrieved |-> 0, context |-> <<>>]
       ELSE \E values \in HashMapValues(documents) :
               \E rag_result \in {Retrieve(values, query)} :
                   /\ ret' = Returned("enhance_prompt",
                                      Ok(LreEnhanced(rag_result.context, prompt)))
                   /\ args' = [op |-> "enhance_prompt", prompt |-> prompt,
                               query |-> query.query,
                               retrieved |-> Len(rag_result.documents),
                               context |-> rag_result.context]
    /\ UNCHANGED <<procVars, runVars, learnVars, memVars, lvsVars, ragVars, expect, order>>

\* C20: enhance_prompt returns the prompt it was given, character for
\* character, when retrieval yields no chunk; when it yields one or more it
\* returns another string, the formatted context followed by text that holds
\* the prompt.
C20_PromptUnchangedWithoutChunks ==
    (sys \in {"rag", "lre"} /\ ret.op = "enhance_prompt" /\ ret.tag = "Ok") =>
        IF args.retrieved = 0 THEN ret.val = args.prompt
        ELSE /\ ret.val # args.prompt
             /\ Len(args.context) > 0
             /\ StartsWith(ret.val, args.context)
             /\ Contains(SubSeq(ret.val, Len(args.context) + 1, Len(ret.val)),
                         args.prompt)

\* C23: LocalVectorStore::new on a data file that exists and is empty (a
\* fresh temporary file) succeeds with no documents and dimension 384.
C23_NewOnEmptyFileSucceeds ==
    (sys = "lvs" /\ ret.op = "new" /\ disk.kind = "empty") =>
       /\ ret.tag = "Ok"
       /\ lvs_documents = <<>>
       /\ EmbeddingDimension = 384

\* C25: before an initialize has succeeded, retrieve and enhance_prompt
\* return an error; initialize on a store that is not connected returns an
\* error and leaves the engine not ready; is_ready() holds exactly when an
\* initialize has succeeded and the store is connected; and an engine that
\* is ready stays ready.
C25_EngineLifecycle ==
    /\ [](sys = "lre" =>
            /\ (ret.op \in {"retrieve", "enhance_prompt"} /\ ~succeeded)
                  => ret.tag = "Err"
            /\ (ret.op = "initialize" /\ ~connected)
                  => (ret.tag = "Err" /\ ~Lre_is_ready)
            /\ Lre_is_ready <=> (succeeded /\ connected))
    /\ [][Lre_is_ready => Lre_is_ready']_vars

\* a ready engine has answered a retrieve with documents
C25_Witness ==
    /\ sys = "lre" /\ Lre_is_ready /\ succeeded
    /\ ret.op = "retrieve" /\ ret.tag = "Ok"
    /\ ret.val.documents # <<>>

----------------------------------------------------------------------------
(* Batch indexing over a list of sources.  `sys` is                         *)
(*   "idx"     src/rag/document_indexer.rs    (index_from_urls,            *)
(*             index_documents, over the in-memory store)                  *)
(*   "ldi"     src/local_document_indexer.rs  (index_ibm_cloud_docs, over  *)
(*             the file-backed store)                                      *)
(*   "legacy"  src/legacy/document_indexer.rs (index_all_sources, over     *)
(*             the Qdrant collection)                                      *)
(* A page is the list of the texts of its elements.  What a fetch gives is *)
(* the network's choice at every call.                                     *)

PageShort == <<Sent(20)>>
PageLong == <<Sent(60)>>
\* reqwest::get(url) and response.text(): an error, or the page
Fetched == {Err("reqwest"), Ok(PageShort), Ok(PageLong)}

\* the error entry of a source that failed: format!("Failed to ... {}: {}")
FailedEntry(what, source, e) == [failed |-> what, source |-> source, error |-> e]

\* history: one entry per source the loop attempted
Attempt(source, failed) == [source |-> source, failed |-> failed]

\* the urls handed to index_from_urls
UrlA == <<"u">>
UrlB == <<"v">>
UrlLists == {<<>>, <<UrlA>>, <<UrlA, UrlB>>, <<UrlB, UrlA>>}

\* LocalDocumentIndexer::index_from_url
Idx_index_from_url(url) == Err("DocumentIndexer")

\* the loop of index_from_urls from the totals `acc`
RECURSIVE FromUrls(_, _)
FromUrls(acc, urls) ==
    IF urls = <<>> THEN acc
    ELSE LET url == Head(urls)
             r == Idx_index_from_url(url)
         IN FromUrls(
              IF r.tag = "Ok"
              THEN IndexingResult(acc.documents_indexed + r.val.documents_indexed,
                                  acc.documents_failed + r.val.documents_failed,
                                  acc.errors \o r.val.errors)
              ELSE IndexingResult(acc.documents_indexed, acc.documents_failed + 1,
                                  Append(acc.errors, FailedEntry("URL", url, r.val))),
              Tail(urls))

\* LocalDocumentIndexer::index_from_urls
Idx_index_from_urls(urls) ==
    /\ sys = "idx"
    /\ ret' = Returned("index_from_urls", Ok(FromUrls(IndexingResult(0, 0, <<>>), urls)))
    /\ args' = [op |-> "index_from_urls",
                attempts |-> [i \in 1..Len(urls) |->
                                 Attempt(urls[i], Idx_index_from_url(urls[i]).tag = "Err")]]
    /\ UNCHANGED <<procVars, runVars, learnVars, memVars, lvsVars, ragVars, expect, order>>

\* the lists handed to index_documents
DocLists == {<<>>} \cup {<<d>> : d \in IdxDocs}
               \cup {<<d, e>> : d \in IdxDocs, e \in IdxDocs}

RECURSIVE SumChunks(_, _)
SumChunks(docs, cfg) ==
    IF docs = <<>> THEN 0
    ELSE Len(Idx_chunk_document(Head(docs).content, cfg)) + SumChunks(Tail(docs), cfg)

\* LocalDocumentIndexer::index_documents: index_document has no error
\* return, and the store of a chunk does not fail
Idx_index_documents(docs) ==
    /\ sys = "idx"
    /\ documents' = IndexDocuments(documents, docs, config)
    /\ expect' = IndexDocuments(expect, docs, config)
    /\ ret' = Returned("index_documents",
                       Ok(IndexingResult(SumChunks(docs, config), 0, <<>>)))
    /\ args' = [op |-> "index_documents",
                attempts |-> [i \in 1..Len(docs) |-> Attempt(docs[i].id, FALSE)]]
    /\ UNCHANGED <<procVars, runVars, learnVars, connected, config, lvsVars, ragVars,
                   order>>

\* the pages of index_ibm_cloud_docs: (name, url)
IbmDocs ==
    <<[name |-> "IBM Cloud CLI Overview", url |-> <<Run("o", 1)>>],
      [name |-> "IBM Cloud CLI Reference", url |-> <<Run("r", 1)>>],
      [name |-> "Getting Started with IBM Cloud CLI", url |-> <<Run("g", 1)>>]>>

\* the shortest element text parse_html_to_chunks keeps is longer than this
MinElementLen == 50

\* format!("{}-{}", url_hash, text_hash)
IdOfPageChunk(source_url, text) == [md5 |-> source_url, index |-> Some(text)]

\* LocalVectorStore::parse_html_to_chunks
Lvs_parse_html_to_chunks(page, source_url) ==
    LET kept == SelectSeq(page, LAMBDA text : RLen(text) > MinElementLen)
    IN [i \in 1..Len(kept) |->
           DocumentChunk(IdOfPageChunk(source_url, kept[i]), kept[i], source_url,
                         [element_type |-> "p", url |-> source_url], <<>>)]

\* LocalVectorStore::index_webpage from the loop state `st`: every chunk of
\* the page indexed until a save fails
Lvs_index_webpage(st, url, fetched, outcome) ==
    IF fetched.tag = "Err" THEN [st |-> st, result |-> fetched]
    ELSE LET chunks == Lvs_parse_html_to_chunks(fetched.val, url)
             failAt == IF outcome = "ok" THEN 0 ELSE 1
             st1 == IndexAll(st, chunks, 1, failAt, outcome)
         IN [st |-> st1,
             result |-> IF chunks # <<>> /\ outcome # "ok" THEN Err("Io")
                        ELSE Ok(Len(chunks))]

Documentation_source == "Documentation"
\* chrono::Utc::now().to_rfc3339(): the time of the call
Now == "now"

ReferenceSource(name, url, source_type, last_indexed, chunk_count) ==
    [name |-> name, url |-> url, source_type |-> source_type,
     last_indexed |-> last_indexed, chunk_count |-> chunk_count]

\* LocalDocumentIndexer::add_reference_source
Ldi_add_reference_source(list, source) ==
    Append(SelectSeq(list, LAMBDA s : s.url # source.url), source)

\* the loop of index_ibm_cloud_docs from page k on
RECURSIVE IbmLoop(_, _, _, _)
IbmLoop(run, k, fetches, outcomes) ==
    IF k > Len(IbmDocs) THEN run
    ELSE LET doc == IbmDocs[k]
             r == Lvs_index_webpage(run.st, doc.url, fetches[k], outcomes[k])
         IN IbmLoop(
              [st |-> r.st,
               total_chunks |-> IF r.result.tag = "Ok"
                                THEN run.total_chunks + r.result.val
                                ELSE run.total_chunks,
               sources |-> IF r.result.tag = "Ok"
                           THEN Ldi_add_reference_source(run.sources,
                                    ReferenceSource(doc.name, doc.url,
                                        Documentation_source, Some(Now),
                                        r.result.val))
                           ELSE run.sources,
               attempts |-> Append(run.attempts,
                                   Attempt(doc.url, r.result.tag = "Err"))],
              k + 1, fetches, outcomes)

\* the saves of one batch: a save is made only for a page with a chunk, and
\* the write failures of a batch are within the run's bound
SaveOutcomes(fetches) ==
    {o \in [DOMAIN fetches -> {"ok", "fail_truncated"}] :
        /\ \A k \in DOMAIN fetches : o[k] # "ok" => fetches[k] = Ok(PageLong)
        /\ faults + Cardinality({k \in DOMAIN fetches : o[k] # "ok"}) <= MaxFaults}

\* LocalDocumentIndexer::index_ibm_cloud_docs
Ldi_index_ibm_cloud_docs(fetches, outcomes) ==
    /\ sys = "ldi" /\ alive
    /\ \E run \in {IbmLoop([st |-> [docs |-> lvs_documents, file |-> disk,
                                    before |-> disk, intended |-> <<>>,
                                    replaced |-> {}, indexed |-> <<>>],
                            total_chunks |-> 0, sources |-> sources,
                            attempts |-> <<>>],
                           1, fetches, outcomes)} :
          /\ lvs_documents' = run.st.docs
          /\ disk' = run.st.file
          /\ sources' = run.sources
          /\ expect' = NoteIndexed(expect, run.st.indexed)
          /\ args' = [op |-> "index_ibm_cloud_docs", attempts |-> run.attempts]
    /\ UNCHANGED <<concVars, embedVars, succeeded, chunkVars>>
    /\ faults' = faults + Cardinality({k \in DOMAIN outcomes : outcomes[k] # "ok"})
    /\ wrote' = IF \E k \in DOMAIN outcomes : outcomes[k] # "ok"
                THEN "fail_truncated"
                ELSE IF \E k \in DOMAIN fetches : fetches[k] = Ok(PageLong)
                THEN "ok" ELSE "none"
    /\ ret' = Returned("index_ibm_cloud_docs", Ok(Unit))
    /\ UNCHANGED <<sys, alive, crash, learnVars, memVars, ragVars, order>>

\* DocumentIndexer::new: the default reference sources
DefaultReferenceSources ==
    <<[name |-> "IBM Cloud CLI Reference", url |-> "https://cloud.ibm.com/docs/cli",
       source_type |-> "IBMCloudCLI", priority |-> 10],
      [name |-> "IBM Cloud CLI Commands",
       url |-> "https://cloud.ibm.com/docs/cli?topic=cli-ibmcloud_cli",
       source_type |-> "IBMCloudCLI", priority |-> 9],
      [name |-> "WatsonX API Documentation",
       url |-> "https://www.ibm.com/docs/en/watsonx/saas?topic=tutorials-watsonx-apis-sdks",
       source_type |-> "WatsonXDocs", priority |-> 8],
      [name |-> "IBM Cloud Code Engine CLI",
       url |-> "https://cloud.ibm.com/docs/codeengine?topic=codeengine-cli",
       source_type |-> "IBMCloudDocs", priority |-> 8],
      [name |-> "IBM Cloud Functions CLI",
       url |-> "https://cloud.ibm.com/docs/openwhisk?topic=openwhisk-functions-cli",
       source_type |-> "IBMCloudDocs", priority |-> 7],
      [name |-> "IBM Cloud Kubernetes Service CLI",
       url |-> "https://cloud.ibm.com/docs/containers?topic=containers-kubernetes-service-cli",
       source_type |-> "IBMCloudDocs", priority |-> 7],
      [name |-> "Carbon Design System", url |-> "https://carbondesignsystem.com/",
       source_type |-> "CarbonDesignSystem", priority |-> 5]>>

\* the page a site serves: a heading too short to keep and a paragraph
LegacyPage ==
    <<[selector |-> "h1", text |-> <<"C", "L", "I">>],
      [selector |-> "p",
       text |-> <<"i", "b", "m", "c", "l", "o", "u", "d", " ", "l", "o", "g", "i", "n">>]>>
LegacyFetched == {Err("reqwest"), Ok(LegacyPage)}

\* an element text must be longer than this to become a chunk
MinTextLen == 10

\* (selector, content type), in the order parse_html_to_chunks goes through
Selectors ==
    <<<<"h1", "heading">>, <<"h2", "heading">>, <<"h3", "heading">>,
      <<"p", "paragraph">>, <<"li", "list_item">>, <<"code", "code">>,
      <<"pre", "code_block">>>>

\* VectorStore::parse_html_to_chunks: the chunks of selector k on
RECURSIVE ParseFrom(_, _, _)
ParseFrom(page, source_url, k) ==
    IF k > Len(Selectors) THEN <<>>
    ELSE LET found == SelectSeq(page, LAMBDA el : /\ el.selector = Selectors[k][1]
                                                  /\ el.text # <<>>
                                                  /\ Len(el.text) > MinTextLen)
         IN [i \in 1..Len(found) |->
                [id |-> [url |-> source_url, md5 |-> found[i].text],
                 content |-> found[i].text, source |-> source_url,
                 metadata |-> [type |-> Selectors[k][2],
                               selector |-> Selectors[k][1]]]]
            \o ParseFrom(page, source_url, k + 1)

\* VectorStore::index_document: the point upserted under the chunk's id
UpsertAll(points, chunks) ==
    {p \in points : \A i \in 1..Len(chunks) : chunks[i].id # p.id}
        \cup {chunks[i] : i \in 1..Len(chunks)}

\* VectorStore::index_webpage
Vs_index_webpage(points, url, fetched) ==
    IF fetched.tag = "Err" THEN [points |-> points, result |-> fetched]
    ELSE LET chunks == ParseFrom(fetched.val, url, 1)
         IN [points |-> UpsertAll(points, chunks), result |-> Ok(Len(chunks))]

\* DocumentIndexer::index_source: the default sources are all web sources
Leg_index_source(points, source, fetched) ==
    Vs_index_webpage(points, source.url, fetched)

\* the loop of index_all_sources from source k on
RECURSIVE AllSourcesLoop(_, _, _)
AllSourcesLoop(run, k, fetches) ==
    IF k > Len(sources) THEN run
    ELSE LET r == Leg_index_source(run.points, sources[k], fetches[k])
         IN AllSourcesLoop(
              [points |-> r.points,
               total_chunks |-> IF r.result.tag = "Ok"
                                THEN run.total_chunks + r.result.val
                                ELSE run.total_chunks,
               attempts |-> Append(run.attempts,
                                   Attempt(sources[k].url, r.result.tag = "Err"))],
              k + 1, fetches)

\* VectorStore::get_collection_info: the answer of the server
CollectionInfos == {Ok(Unit), Err("qdrant")}

\* at most this many sites fail to answer during one batch of the model
MaxDown == 2

\* what the sites of the list answer during one batch
LegacyFetches ==
    {f \in [DOMAIN sources -> LegacyFetched] :
        Cardinality({k \in DOMAIN sources : f[k].tag = "Err"}) <= MaxDown}

\* DocumentIndexer::index_all_sources
Leg_index_all_sources(fetches, info) ==
    /\ sys = "legacy"
    /\ \E run \in {AllSourcesLoop([points |-> collection, total_chunks |-> 0,
                                   attempts |-> <<>>], 1, fetches)} :
          /\ collection' = run.points
          /\ args' = [op |-> "index_all_sources", attempts |-> run.attempts]
          /\ ret' = Returned("index_all_sources",
                             IF info.tag = "Err" THEN info ELSE Ok(run.total_chunks))
    /\ UNCHANGED <<procVars, runVars, learnVars, memVars, lvsVars, rag_config,
                   initialized, expect, order>>

\* C21: a batch call attempts every source of its list, and every source
\* that failed is one recorded failure of the returned result
\* (documents_failed counts it and errors holds one entry for it).
BatchOps == {"index_from_urls", "index_documents", "index_ibm_cloud_docs",
             "index_all_sources"}
FailedAttempts == {i \in DOMAIN args.attempts : args.attempts[i].failed}
C21_BatchRecordsEachFailure ==
    ret.op \in BatchOps =>
       /\ ret.tag = "Ok"
       /\ FailedAttempts # {} =>
             /\ ret.op \in {"index_from_urls", "index_documents"}
             /\ ret.val.documents_failed = Cardinality(FailedAttempts)
             /\ Len(ret.val.errors) = Cardinality(FailedAttempts)

\* every source of the list is attempted, whatever failed before it
BatchAttemptsEverySource ==
    /\ ret.op = "index_ibm_cloud_docs" =>
          [i \in DOMAIN args.attempts |-> args.attempts[i].source]
             = [i \in DOMAIN IbmDocs |-> IbmDocs[i].url]
    /\ ret.op = "index_all_sources" =>
          [i \in DOMAIN args.attempts |-> args.attempts[i].source]
             = [i \in DOMAIN sources |-> sources[i].url]

----------------------------------------------------------------------------
(* The in-memory store under concurrent callers (sys = "conc").  Every     *)
(* call takes the RwLock of `documents` once, works on the map and drops   *)
(* the guard when it returns: `threads` holds where each caller is, `lock` *)
(* who holds the lock.  store_batch inserts its documents one at a time    *)
(* while it holds the write guard.                                         *)

\* the callers of the model
NumThreads == 2
Threads == 1..NumThreads

Unlocked == [writer |-> None, readers |-> {}]
Idle == [pc |-> "idle", call |-> [op |-> "none"], i |-> 0, result |-> None,
         expected |-> {}]

Call(op, arg) == [op |-> op, arg |-> arg]
ConcSearches == {<<<<"d", "b">>, [top_k |-> k, score_threshold |-> None]>> :
                    k \in {1, MaxTopK}}
ConcCalls ==
    {Call("store", d) : d \in StoreDocs}
      \cup {Call("store_batch", b) : b \in StoreBatches}
      \cup {Call("delete", id) : id \in {IdX, IdY}}
      \cup {Call("clear", Unit)}
      \cup {Call("search", s) : s \in ConcSearches}
      \cup {Call("get", id) : id \in {IdX, IdY}}
      \cup {Call("count", Unit)}
WriteOps == {"store", "store_batch", "delete", "clear"}

\* a lock that hands out read guards while a writer holds it
ReadsUnguarded(l) == TRUE

\* RwLock::read is granted when no writer holds the lock
CanRead(l) == l.writer = None

\* RwLock::write is granted when nobody holds the lock
CanWrite(l) == l.writer = None /\ l.readers = {}

\* history: the store and the result of a writing call made at one instant
SerialApply(m, call) ==
    CASE call.op = "store" -> HashMapInsert(m, call.arg.id, call.arg)
      [] call.op = "store_batch" -> InsertDocs(m, call.arg)
      [] call.op = "delete" -> [x \in DOMAIN m \ {call.arg} |-> m[x]]
      [] call.op = "clear" -> EmptyMap
SerialResult(m, call) ==
    CASE call.op = "store" -> call.arg.id
      [] call.op = "store_batch" -> [i \in 1..Len(call.arg) |-> call.arg[i].id]
      [] call.op = "delete" -> call.arg \in DOMAIN m
      [] call.op = "clear" -> Unit

\* what a reading call may return on the map m
ReadResults(m, call) ==
    CASE call.op = "search" ->
            {SearchResults(values, call.arg[1], call.arg[2]) :
                values \in HashMapValues(m)}
      [] call.op = "get" -> {Mem_get_from(m, call.arg)}
      [] call.op = "count" -> {Cardinality(DOMAIN m)}

\* `self.documents.write()` / `self.documents.read()` at the start of a call
Conc_acquire(t, call) ==
    /\ sys = "conc" /\ threads[t].pc = "idle"
    /\ IF call.op \in WriteOps
       THEN /\ CanWrite(lock)
            /\ lock' = [lock EXCEPT !.writer = Some(t)]
            /\ lin' = SerialApply(lin, call)
            /\ Cardinality(DOMAIN lin') <= MaxStored
            /\ threads' = [threads EXCEPT ![t] =
                              [pc |-> "locked", call |-> call, i |-> 0,
                               result |-> None,
                               expected |-> {SerialResult(lin, call)}]]
       ELSE /\ CanRead(lock)
            /\ lock' = [lock EXCEPT !.readers = @ \cup {t}]
            /\ lin' = lin
            /\ threads' = [threads EXCEPT ![t] =
                              [pc |-> "locked", call |-> call, i |-> 0,
                               result |-> None, expected |-> {}]]
    /\ UNCHANGED <<procVars, ret, learnVars, docVars, sources, embedVars, succeeded, chunkVars>>

\* the body of a call, under its guard: one insert of store_batch, or the
\* whole of any other call
Conc_work(t) ==
    /\ sys = "conc" /\ threads[t].pc = "locked"
    /\ LET call == threads[t].call
           done(result, expected) ==
               threads' = [threads EXCEPT ![t].pc = "done",
                                          ![t].result = Some(result),
                                          ![t].expected = expected]
       IN CASE call.op = "store" ->
                 /\ documents' = HashMapInsert(documents, call.arg.id, call.arg)
                 /\ done(call.arg.id, threads[t].expected)
            [] call.op = "store_batch" ->
                 LET i == threads[t].i + 1
                 IN /\ documents' = HashMapInsert(documents, call.arg[i].id, call.arg[i])
                    /\ IF i = Len(call.arg)
                       THEN done([k \in 1..i |-> call.arg[k].id], threads[t].expected)
                       ELSE threads' = [threads EXCEPT ![t].i = i]
            [] call.op = "delete" ->
                 /\ documents' = [x \in DOMAIN documents \ {call.arg} |-> documents[x]]
                 /\ done(call.arg \in DOMAIN documents, threads[t].expected)
            [] call.op = "clear" ->
                 /\ documents' = EmptyMap
                 /\ done(Unit, threads[t].expected)
            [] call.op \in {"search", "get", "count"} ->
                 /\ documents' = documents
                 /\ \E result \in ReadResults(documents, call) :
                       done(result, ReadResults(lin, call))
    /\ UNCHANGED <<procVars, ret, learnVars, connected, config, lvsVars, ragVars,
                   expect, args, order, sources, lock, lin, embedVars, succeeded,
                   chunkVars>>

\* the guard is dropped and the call returns
Conc_release(t) ==
    /\ sys = "conc" /\ threads[t].pc = "done"
    /\ lock' = IF threads[t].call.op \in WriteOps
               THEN [lock EXCEPT !.writer = None]
               ELSE [lock EXCEPT !.readers = @ \ {t}]
    /\ ret' = Returned(threads[t].call.op, Ok(threads[t].result[1]))
    /\ args' = [op |-> threads[t].call.op, thread |-> t]
    /\ threads' = [threads EXCEPT ![t] = Idle]
    /\ UNCHANGED <<sys, alive, disk, wrote, faults, crash, learnVars, memVars, lvsVars,
                   ragVars, expect, order, sources, lin, embedVars, succeeded, chunkVars>>

\* C22: concurrent calls on the in-memory store behave as if each was made
\* at one instant: a reader returns what the store holds after the writes
\* that took the lock before it, whole (never part of a store_batch), no
\* writer works beside another guard, and once no writer works the store
\* holds every write made, in the order the writers took the lock.
C22_StoreCallsAreAtomic ==
    sys = "conc" =>
       /\ \A t \in Threads :
             threads[t].pc = "done" => threads[t].result[1] \in threads[t].expected
       /\ lock.writer = None => documents = lin
       /\ lock.writer # None => lock.readers = {}

\* two readers hold the lock together on a store that a batch has filled
C22_Witness ==
    /\ sys = "conc"
    /\ ret.op = "store_batch"
    /\ Cardinality(DOMAIN documents) = 2
    /\ \E t, u \in Threads :
          /\ t # u
          /\ {t, u} \subseteq lock.readers
          /\ threads[t].pc = "done" /\ threads[t].call.op = "search"
          /\ threads[u].pc = "done" /\ threads[u].call.op = "count"

----------------------------------------------------------------------------
(* The hash embedder of the file-backed store, across store instances and  *)
(* processes (sys = "embed").  Every process has the random keys that      *)
(* std's RandomState would hash with (`seed`); DefaultHasher::new() does   *)
(* not use them.  SipHash-1-3 is stood for by a keyed polynomial hash of   *)
(* four 16-bit lanes: like it, a function of the keys and the bytes alone. *)
(* Weights are kept in sixtieths; the division by the magnitude is kept as *)
(* the squared magnitude beside the sums it divides.                       *)

Procs == {1, 2}
Seeds == {7, 11}

LowerLetters ==
    <<"a", "b", "c", "d", "e", "f", "g", "h", "i", "j", "k", "l", "m", "n", "o",
      "p", "q", "r", "s", "t", "u", "v", "w", "x", "y", "z">>
\* the byte of a lower-case letter or of the space
ByteOf(c) ==
    IF c = " " THEN 32
    ELSE 96 + (CHOOSE i \in 1..Len(LowerLetters) : LowerLetters[i] = c)

\* a hasher keyed by the keys of the process
RandomStateKeys(s) == <<s, s + 1>>

\* DefaultHasher::new(): SipHasher13 with the keys (0, 0)
DefaultHasher_new(s) == <<0, 0>>

LaneWidth == 65536
LaneMultipliers == <<31, 33, 37, 41>>

\* one 16-bit lane of the hash of `bytes`
RECURSIVE Lane(_, _, _)
Lane(h, m, bytes) ==
    IF bytes = <<>> THEN h
    ELSE Lane((h * m + Head(bytes)) % LaneWidth, m, Tail(bytes))

\* str::hash then Hasher::finish: the bytes and the 0xff that ends a str,
\* as the four lanes of the u64 (lowest first)
HashStr(keys, s) ==
    LET bytes == [i \in 1..Len(s) |-> ByteOf(s[i])] \o <<255>>
    IN [j \in 1..4 |->
           Lane((keys[1] * j + keys[2]) % LaneWidth, LaneMultipliers[j], bytes)]

\* (hash >> (16 * shift)) % 384, with 2^16 % 384 = 256 and 256 * 256 % 384 = 256
HashIndex(hash, shift) ==
    LET high == {j \in 1..4 : j > shift + 1}
        RECURSIVE SumLanes(_)
        SumLanes(S) == IF S = {} THEN 0
                       ELSE LET j == CHOOSE x \in S : TRUE
                            IN hash[j] + SumLanes(S \ {j})
    IN (hash[shift + 1] + 256 * SumLanes(high)) % EmbeddingDimension

\* weights in sixtieths: 1 / (pos + 1), and its 0.7 and 0.5; 0.8 of a bigram
WeightUnit == 60
Contribution(idx, weight) == [idx |-> idx, weight |-> weight]
WordFeatures(keys, words) ==
    [k \in 1..(3 * Len(words)) |->
        LET pos == (k - 1) \div 3
            which == (k - 1) % 3
            hash == HashStr(keys, words[pos + 1])
            position_weight == WeightUnit \div (pos + 1)
        IN Contribution(HashIndex(hash, which),
                        CASE which = 0 -> position_weight
                          [] which = 1 -> (position_weight * 7) \div 10
                          [] which = 2 -> position_weight \div 2)]
BigramFeatures(keys, words) ==
    [i \in 1..(IF Len(words) = 0 THEN 0 ELSE Len(words) - 1) |->
        Contribution(HashIndex(HashStr(keys, words[i] \o <<" ">> \o words[i + 1]), 0),
                     (WeightUnit * 8) \div 10)]

\* LocalVectorStore::generate_embeddings with the hasher keys `keys`: the
\* vector of `dimension` values as the sums of its entries that are not
\* zero, by index, and the squared magnitude they are divided by
GenerateEmbeddings(keys, text) ==
    LET words == SplitWhitespace(ToLower(text))
        features == WordFeatures(keys, words) \o BigramFeatures(keys, words)
        at(d) == SelectSeq(features, LAMBDA f : f.idx = d)
        nonzero == [d \in {features[k].idx : k \in 1..Len(features)} |->
                       SumSeq([k \in 1..Len(at(d)) |-> at(d)[k].weight])]
        squares == [d \in DOMAIN nonzero |-> nonzero[d] * nonzero[d]]
        RECURSIVE SumOver(_)
        SumOver(S) == IF S = {} THEN 0
                      ELSE LET d == CHOOSE x \in S : TRUE
                           IN squares[d] + SumOver(S \ {d})
    IN [dimension |-> EmbeddingDimension, nonzero |-> nonzero,
        magnitude2 |-> SumOver(DOMAIN nonzero)]

\* the texts embedded: at most two words, in either case and order
EmbedTexts == {<<>>, <<" ">>, <<"L", "s", " ", "d", "b">>,
               <<"d", "b", " ", "l", "s">>}

\* generate_embeddings called in the store of process p
Lvs_embed(p, text) ==
    /\ sys = "embed"
    /\ LET embedding == GenerateEmbeddings(DefaultHasher_new(seed[p]), text)
       IN /\ embedded' = [x \in DOMAIN embedded \cup {<<p, text>>} |->
                             IF x = <<p, text>> THEN embedding ELSE embedded[x]]
          /\ ret' = Returned("generate_embeddings", Ok(embedding))
    /\ args' = [op |-> "generate_embeddings", process |-> p, text |-> text]
    /\ UNCHANGED <<procVars, learnVars, memVars, lvsVars, ragVars, expect, order,
                   sources, concVars, seed, succeeded, chunkVars>>

\* C24: generate_embeddings is a function of its text alone: whatever the
\* process and the store instance, the same text gives the same 384 values,
\* and the empty text gives 384 zeros.
ZeroVector == [dimension |-> 384, nonzero |-> EmptyMap, magnitude2 |-> 0]
----------------------------------------------------------------------------
(* chunk_document of src/rag/document_indexer.rs, one iteration of its     *)
(* loop at a time (sys = "chunk"), for the configurations with_config      *)
(* takes.  `end - chunk_overlap` is a usize subtraction: below zero it     *)
(* panics in a build with overflow checks and wraps around in one without. *)

\* the most iterations of the loop the model follows
MaxIterations == 4

\* usize::MAX + 1; the model's usize is 30 bits wide, wide enough for a
\* wrapped value to lie beyond the end of every content
UsizeModulus == 1073741824

Builds == {"overflow-checks", "wrapping"}
ChunkConfigs == [chunk_size : 0..3, chunk_overlap : 0..3]
ChunkContents == {<<>>, TextShort, TextLong}

\* one pass through `while start < chars.len() { .. }`
Idx_chunk_iterate ==
    /\ sys = "chunk" /\ ret = NoCall /\ Len(cd_chunks) < MaxIterations
    /\ LET chars == args.content
           end == Min(cd_start + config.chunk_size, Len(chars))
           chunk == SubSeq(chars, cd_start + 1, end)
       IN IF ~(cd_start < Len(chars))
          THEN /\ ret' = Returned("chunk_document", Ok(cd_chunks))
               /\ UNCHANGED <<cd_start, cd_chunks>>
          ELSE /\ cd_chunks' = Append(cd_chunks, chunk)
               /\ IF end >= Len(chars)
                  THEN /\ ret' = Returned("chunk_document", Ok(cd_chunks'))
                       /\ cd_start' = cd_start
                  ELSE IF end >= config.chunk_overlap
                  THEN /\ cd_start' = end - config.chunk_overlap
                       /\ ret' = ret
                  ELSE IF args.build = "overflow-checks"
                  THEN /\ ret' = Died("chunk_document")
                       /\ cd_start' = cd_start
                  ELSE /\ cd_start' = (end - config.chunk_overlap) % UsizeModulus
                       /\ ret' = ret
    /\ UNCHANGED <<procVars, learnVars, memVars, lvsVars, ragVars, expect, args, order,
                   sources, concVars, embedVars, succeeded>>

\* C26: chunk_document terminates for every content and configuration:
\* no iteration panics, and every iteration that does not end the loop
\* moves the start position forward.
C26_ChunkingAdvances ==
    [][sys = "chunk" =>
          /\ ret'.tag # "died"
          /\ (ret' = NoCall => cd_start' > cd_start)]_vars

\* where the loop ends, it has made the chunks of chunk_document
ChunkLoopIsChunkFrom ==
    (sys = "chunk" /\ ret.tag = "Ok" /\ config.chunk_overlap < config.chunk_size)
       => ret.val = Idx_chunk_document(args.content, config)

----------------------------------------------------------------------------
(* WatsonxClient::generate_with_feedback (WatsonxAI::watsonx_gen_with_     *)
(* feedback is the same loop): up to max_attempts generation calls, each   *)
(* result scored by assess_quality.  Scores are hundredths.                *)

MaxAttempts == 3

\* str::trim
RECURSIVE TrimStart(_)
TrimStart(s) ==
    IF s # <<>> /\ IsWhitespace(Head(s)) THEN TrimStart(Tail(s)) ELSE s

RECURSIVE TrimEnd(_)
TrimEnd(s) ==
    IF s # <<>> /\ IsWhitespace(s[Len(s)])
    THEN TrimEnd(SubSeq(s, 1, Len(s) - 1)) ELSE s

Trim(s) == TrimEnd(TrimStart(s))

\* str::lines
RECURSIVE SplitLines(_, _, _)
SplitLines(s, cur, acc) ==
    IF s = <<>> THEN (IF cur = <<>> THEN acc ELSE Append(acc, cur))
    ELSE IF Head(s) = "\n" THEN SplitLines(Tail(s), <<>>, Append(acc, cur))
         ELSE SplitLines(Tail(s), Append(cur, Head(s)), acc)

Lines(s) == SplitLines(s, <<>>, <<>>)

Ibmcloud == <<"i", "b", "m", "c", "l", "o", "u", "d">>

common_patterns ==
    {<<"r", "e", "s", "o", "u", "r", "c", "e">>,
     <<"s", "e", "r", "v", "i", "c", "e">>,
     <<"t", "a", "r", "g", "e", "t">>,
     <<"l", "o", "g", "i", "n">>,
     <<"p", "l", "u", "g", "i", "n">>,
     <<"c", "f">>, <<"k", "s">>, <<"c", "r">>}

error_indicators ==
    {<<"e", "r", "r", "o", "r">>,
     <<"f", "a", "i", "l", "e", "d">>,
     <<"i", "n", "v", "a", "l", "i", "d">>,
     <<"u", "n", "k", "n", "o", "w", "n">>,
     <<"n", "o", "t", " ", "f", "o", "u", "n", "d">>}

\* WatsonxClient::assess_quality: score / max_score with max_score = 1.0
AssessQuality(result) ==
    LET trimmed == Trim(result)
        line_count == Cardinality({i \in DOMAIN Lines(result) :
                                     Trim(Lines(result)[i]) # <<>>})
        score ==
            (IF StartsWith(trimmed, Ibmcloud) THEN 30 ELSE 0)
          + (IF trimmed # <<>> /\ Len(trimmed) > 8 /\ Len(trimmed) < 200
             THEN 20 ELSE 0)
          + (IF \E pattern \in common_patterns : Contains(result, pattern)
             THEN 20 ELSE 0)
          + (IF ~ \E indicator \in error_indicators :
                    Contains(ToLower(result), indicator)
             THEN 15 ELSE 0)
          + (IF line_count = 1 THEN 15 ELSE 0)
        max_score == 30 + 20 + 20 + 15 + 15
    IN IF max_score > 0 THEN (score * 100) \div max_score ELSE 0

\* what one generate_with_config call hands back: the generated text, or the
\* provider's error or the timeout
GeneratedTexts ==
    {Ibmcloud \o <<" ", "l", "o", "g", "i", "n">>,
     Ibmcloud,
     <<"l", "s">>,
     <<"p", "s">>,
     <<"e", "r", "r", "o", "r">>}

GenerationOutcomes == {Err("Timeout")} \cup {Ok(t) : t \in GeneratedTexts}

\* RetryConfig; the default is 3 attempts at threshold 0.7
RetryConfigs == [max_attempts : 0..MaxAttempts, quality_threshold : {50, 70}]

\* the loop from `attempt` on, with the best attempt so far; `calls` counts
\* the generate_with_config calls made
RECURSIVE FeedbackLoop(_, _, _, _)
FeedbackLoop(retry_cfg, outcomes, attempt, best_attempt) ==
    IF attempt > retry_cfg.max_attempts
    THEN [result |-> IF best_attempt = None
                     THEN Err("All generation attempts failed")
                     ELSE Ok(best_attempt[1]),
          calls |-> attempt - 1]
    ELSE IF outcomes[attempt].tag = "Ok"
         THEN LET quality_score == AssessQuality(outcomes[attempt].val)
                  current_attempt ==
                      [result |-> outcomes[attempt].val,
                       quality_score |-> quality_score,
                       attempt_number |-> attempt]
              IN IF quality_score >= retry_cfg.quality_threshold
                 THEN [result |-> Ok(current_attempt), calls |-> attempt]
                 ELSE FeedbackLoop(retry_cfg, outcomes, attempt + 1,
                        IF best_attempt = None
                           \/ quality_score > best_attempt[1].quality_score
                        THEN Some(current_attempt) ELSE best_attempt)
         ELSE IF attempt = retry_cfg.max_attempts
              THEN [result |-> outcomes[attempt], calls |-> attempt]
              ELSE FeedbackLoop(retry_cfg, outcomes, attempt + 1, best_attempt)

\* WatsonxClient::generate_with_feedback
Wx_generate_with_feedback(retry_cfg, outcomes) ==
    /\ sys = "retry" /\ ret = NoCall
    /\ \E run \in {FeedbackLoop(retry_cfg, outcomes, 1, None)} :
          /\ ret' = Returned("generate_with_feedback", run.result)
          /\ args' = [op |-> "generate_with_feedback",
                      retry_cfg |-> retry_cfg,
                      made |-> SubSeq(outcomes, 1, run.calls)]
    /\ UNCHANGED <<procVars, runVars, learnVars, memVars, lvsVars, ragVars,
                   expect, order>>

\* the calls of a finished run that succeeded, and those good enough
Succeeded == {i \in DOMAIN args.made : args.made[i].tag = "Ok"}
QualityOf(i) == AssessQuality(args.made[i].val)
Reached == {i \in Succeeded : QualityOf(i) >= args.retry_cfg.quality_threshold}

\* C27: the loop makes at most max_attempts calls; if one of them succeeds it
\* returns Ok, the first attempt whose quality reaches the threshold and
\* otherwise the successful attempt of the highest quality; it returns an
\* error only when every attempt failed.
C27_RetryReturnsBestSuccess ==
    (sys = "retry" /\ ret.op = "generate_with_feedback") =>
        /\ Len(args.made) <= args.retry_cfg.max_attempts
        /\ Succeeded # {} =>
              /\ ret.tag = "Ok"
              /\ ret.val.attempt_number \in Succeeded
              /\ ret.val.result = args.made[ret.val.attempt_number].val
              /\ IF Reached # {}
                 THEN \A i \in Reached : ret.val.attempt_number <= i
                 ELSE \A i \in Succeeded :
                         QualityOf(i) <= QualityOf(ret.val.attempt_number)
        /\ ret.tag = "Err" => Succeeded = {}

\* what the loop does return: the error of the last attempt whenever that
\* attempt fails, whatever came before it
RetryLastFailureWins ==
    (sys = "retry" /\ ret.op = "generate_with_feedback") =>
        /\ Len(args.made) <= args.retry_cfg.max_attempts
        /\ (ret.tag = "Err" /\ args.retry_cfg.max_attempts > 0) =>
              /\ Len(args.made) = args.retry_cfg.max_attempts
              /\ args.made[Len(args.made)].tag = "Err"
        /\ (ret.tag = "Ok" /\ Reached # {}) =>
              \A i \in Reached : ret.val.attempt_number <= i

----------------------------------------------------------------------------
(* Retry strategies (src/command_learning.rs): the table seeded by         *)
(* initialize_retry_strategies and analyze_failure_pattern, which looks    *)
(* the type analyze_error gives up in it.  Rates are hundredths.           *)

RetryStrategy(strategy_type, max_attempts, delay_ms, success_rate) ==
    [strategy_type |-> strategy_type, max_attempts |-> max_attempts,
     delay_ms |-> delay_ms, success_rate |-> success_rate]

\* CommandLearningEngine::initialize_retry_strategies: database.retry_strategies
\* of every engine, keyed by the type
RetryStrategies ==
    [NetworkError |-> RetryStrategy("ExponentialBackoff", 3, 1000, 70),
     AuthenticationError |-> RetryStrategy("NoRetry", 1, 0, 10),
     InvalidSyntax |-> RetryStrategy("ContextualRetry", 2, 500, 80),
     CommandNotFound |-> RetryStrategy("ImmediateRetry", 2, 0, 60),
     ParameterError |-> RetryStrategy("LinearBackoff", 2, 500, 75)]

\* CommandLearningEngine::get_default_retry_strategy
GetDefaultRetryStrategy(correction_type) ==
    CASE correction_type.type = "NetworkError" ->
             RetryStrategy("ExponentialBackoff", 3, 1000, 70)
      [] correction_type.type = "AuthenticationError" ->
             RetryStrategy("NoRetry", 1, 0, 10)
      [] OTHER -> RetryStrategy("LinearBackoff", 2, 500, 60)

\* the regex  pre([^stops]+)post  found somewhere in s
MatchGroup(s, pre, stops, post) ==
    \E i \in 1..Len(s), j \in 1..Len(s) :
        /\ i <= j /\ i > Len(pre) /\ SubSeq(s, i - Len(pre), i - 1) = pre
        /\ \A k \in i..j : s[k] \notin stops
        /\ j + Len(post) <= Len(s) /\ SubSeq(s, j + 1, j + Len(post)) = post

Quote == {"'"}
Whitespace == {" ", "\n", "\t"}

ReCommand ==
    <<"c", "o", "m", "m", "a", "n", "d", " ", "'">>
ReNotFound ==
    <<"'", " ", "n", "o", "t", " ", "f", "o", "u", "n", "d">>
ReUnknownCommand ==
    <<"U", "n", "k", "n", "o", "w", "n", " ", "c", "o", "m", "m", "a", "n",
      "d", ":", " ">>
ReInvalidSyntax ==
    <<"I", "n", "v", "a", "l", "i", "d", " ", "s", "y", "n", "t", "a", "x">>
ReNear ==
    <<"n", "e", "a", "r", " ", "'">>
RePlugin ==
    <<"P", "l", "u", "g", "i", "n", " ", "'">>
ReNotInstalled ==
    <<"'", " ", "n", "o", "t", " ", "i", "n", "s", "t", "a", "l", "l", "e",
      "d">>
ReAuthenticationFailed ==
    <<"A", "u", "t", "h", "e", "n", "t", "i", "c", "a", "t", "i", "o", "n",
      " ", "f", "a", "i", "l", "e", "d">>
ReNetworkError ==
    <<"N", "e", "t", "w", "o", "r", "k", " ", "e", "r", "r", "o", "r">>
ReConnectionRefused ==
    <<"C", "o", "n", "n", "e", "c", "t", "i", "o", "n", " ", "r", "e", "f",
      "u", "s", "e", "d">>
ReTimeout ==
    <<"t", "i", "m", "e", "o", "u", "t">>
ReResource ==
    <<"R", "e", "s", "o", "u", "r", "c", "e", " ", "'">>
RePermissionDenied ==
    <<"P", "e", "r", "m", "i", "s", "s", "i", "o", "n", " ", "d", "e", "n",
      "i", "e", "d">>
ReAccessDenied ==
    <<"A", "c", "c", "e", "s", "s", " ", "d", "e", "n", "i", "e", "d">>
ReForbidden ==
    <<"F", "o", "r", "b", "i", "d", "d", "e", "n">>
ReMissingRequiredParameter ==
    <<"M", "i", "s", "s", "i", "n", "g", " ", "r", "e", "q", "u", "i", "r",
      "e", "d", " ", "p", "a", "r", "a", "m", "e", "t", "e", "r", ":", " ">>
ReInvalidParameterValue ==
    <<"I", "n", "v", "a", "l", "i", "d", " ", "p", "a", "r", "a", "m", "e",
      "t", "e", "r", " ", "v", "a", "l", "u", "e", ":", " ">>

\* the regex  Invalid syntax.*near '([^']+)'  : the dot does not cross a line
InvalidSyntaxNear(s) ==
    \E p \in 1..Len(s), q \in 1..Len(s) :
        /\ p + Len(ReInvalidSyntax) <= q
        /\ SubSeq(s, p, p + Len(ReInvalidSyntax) - 1) = ReInvalidSyntax
        /\ \A k \in (p + Len(ReInvalidSyntax))..(q - 1) : s[k] # "\n"
        /\ MatchGroup(SubSeq(s, q, Len(s)), ReNear, Quote, <<"'">>)
        /\ SubSeq(s, q, q + Len(ReNear) - 1) = ReNear

\* CommandLearningEngine::initialize_error_patterns: some pattern matches
ErrorPatternsMatch(s) ==
    \/ MatchGroup(s, ReCommand, Quote, ReNotFound)
    \/ MatchGroup(s, ReUnknownCommand, Whitespace, <<>>)
    \/ InvalidSyntaxNear(s)
    \/ MatchGroup(s, RePlugin, Quote, ReNotInstalled)
    \/ Contains(s, ReAuthenticationFailed)
    \/ Contains(s, ReNetworkError) \/ Contains(s, ReConnectionRefused)
    \/ Contains(s, ReTimeout)
    \/ MatchGroup(s, ReResource, Quote, ReNotFound)
    \/ Contains(s, RePermissionDenied) \/ Contains(s, ReAccessDenied)
    \/ Contains(s, ReForbidden)
    \/ MatchGroup(s, ReMissingRequiredParameter, Whitespace, <<>>)
    \/ MatchGroup(s, ReInvalidParameterValue, Whitespace, <<>>)

\* CommandLearningEngine::analyze_failure_pattern
AnalyzeFailurePattern(error_message) ==
    LET correction_type == AnalyzeError(error_message)
    IN IF correction_type.type \in DOMAIN RetryStrategies
       THEN Some(RetryStrategies[correction_type.type])
       ELSE IF ErrorPatternsMatch(error_message)
       THEN Some(GetDefaultRetryStrategy(correction_type))
       ELSE Some(RetryStrategy("LinearBackoff", 2, 1000, 50))

\* the messages of failures of the network, of the login and of the rest
FailurePieces ==
    <<
      <<"N", "e", "t", "w", "o", "r", "k", " ", "e", "r", "r", "o", "r",
        ";", " ">>,
      <<"C", "o", "n", "n", "e", "c", "t", "i", "o", "n", " ", "r", "e",
        "f", "u", "s", "e", "d", ";", " ">>,
      <<"r", "e", "q", "u", "e", "s", "t", " ", "t", "i", "m", "e", "o",
        "u", "t", ";", " ">>,
      <<"A", "u", "t", "h", "e", "n", "t", "i", "c", "a", "t", "i", "o",
        "n", " ", "f", "a", "i", "l", "e", "d", ";", " ">>,
      <<"P", "e", "r", "m", "i", "s", "s", "i", "o", "n", " ", "d", "e",
        "n", "i", "e", "d", ";", " ">>,
      <<"P", "l", "u", "g", "i", "n", " ", "'", "k", "s", "'", " ", "n",
        "o", "t", " ", "i", "n", "s", "t", "a", "l", "l", "e", "d", ";",
        " ">>,
      <<"R", "e", "s", "o", "u", "r", "c", "e", " ", "'", "d", "b", "'",
        " ", "n", "o", "t", " ", "f", "o", "u", "n", "d", ";", " ">>,
      <<"M", "i", "s", "s", "i", "n", "g", " ", "r", "e", "q", "u", "i",
        "r", "e", "d", " ", "p", "a", "r", "a", "m", "e", "t", "e", "r",
        ":", " ", "n", "a", "m", "e", ";", " ">>,
      <<"U", "n", "k", "n", "o", "w", "n", " ", "c", "o", "m", "m", "a",
        "n", "d", ":", " ", "x", "y", "z", ";", " ">>,
      <<"I", "n", "v", "a", "l", "i", "d", " ", "s", "y", "n", "t", "a",
        "x", " ", "n", "e", "a", "r", " ", "'", "l", "s", "'", ";", " ">>,
      <<"c", "o", "m", "m", "a", "n", "d", " ", "'", "x", "y", "z", "'",
        " ", "n", "o", "t", " ", "f", "o", "u", "n", "d", ";", " ">>,
      <<"u", "n", "a", "u", "t", "h", "o", "r", "i", "z", "e", "d", ";",
        " ">>>>

\* a message of at most two failure pieces, after at most one of the pieces
\* analyze_error knows
FailureMessages ==
    {ErrorMessage(known, 1) \o FailurePieces[a] \o tail :
        known \in {{}} \cup {{k} : k \in 1..Len(ErrorPieces)},
        a \in 1..Len(FailurePieces),
        tail \in {<<>>} \cup {FailurePieces[b] : b \in 1..Len(FailurePieces)}}

\* a call of analyze_failure_pattern on the message the state holds
Db_analyze_failure_pattern ==
    /\ sys = "analyze" /\ ret = NoCall
    /\ ret' = Returned("analyze_failure_pattern",
                       Ok(AnalyzeFailurePattern(args.error_message)))
    /\ UNCHANGED <<procVars, runVars, learnVars, docVars>>

\* C29: every entry of the seeded table is reachable: for each seeded type
\* some error message makes analyze_failure_pattern return that entry.
C29_EverySeededStrategyReachable ==
    sys = "analyze" =>
        \A type \in DOMAIN RetryStrategies :
            \E m \in ErrorMessages \cup FailureMessages :
                AnalyzeFailurePattern(m) = Some(RetryStrategies[type])

\* what the calls show: a returned strategy is never that of NetworkError or
\* AuthenticationError, whatever the message says about network or login
FailurePatternNeverNetworkOrLogin ==
    (sys = "analyze" /\ ret.op = "analyze_failure_pattern") =>
        /\ ret.val[1].strategy_type \notin {"ExponentialBackoff", "NoRetry"}
        /\ ret.val[1] \in
              {RetryStrategies[type] :
                  type \in {"InvalidSyntax", "CommandNotFound", "ParameterError"}}
              \cup {RetryStrategy("LinearBackoff", 2, 500, 60),
                     RetryStrategy("LinearBackoff", 2, 1000, 50)}

----------------------------------------------------------------------------
(* Memory after a save that failed                                         *)

\* the calls that insert into memory and then write the file
SavingCalls == {"add_correction", "save", "index_document"}

\* C28: when add_correction of the map engine, save of the repository or
\* index_document of the file-backed store returns an error because the write
\* of the file failed, the corrections and documents in memory are those from
\* before the call.
C28_FailedSaveLeavesMemory ==
    [][(/\ sys \in {"cli", "repo", "lvs"}
        /\ ret'.op \in SavingCalls /\ ret'.tag = "Err"
        /\ wrote' \in WriteFailures)
       => (corrections' = corrections /\ lvs_documents' = lvs_documents)]_vars

----------------------------------------------------------------------------
(* legacy LocalRAGEngine (src/legacy/local_rag.rs): its learning engine is *)
(* the appending CommandLearningEngine, reached through                    *)
(* add_command_correction and get_command_suggestions.                     *)

\* add_correction up to the save: the database with the record pushed and
\* filed under its pattern
PushCorrection(db, original_query, incorrect_command, correct_command, error_message, correction_type) ==
    [db EXCEPT
        !.corrections = Append(@, [original_query |-> original_query,
                                   incorrect_command |-> incorrect_command,
                                   correct_command |-> correct_command,
                                   error_message |-> error_message,
                                   correction_type |-> correction_type]),
        !.patterns = Db_update_patterns(@, correction_type,
                                        incorrect_command, correct_command)]

\* the corrections a user reports: the command that failed, the command that
\* works, what the user had asked for
LragCalls == {<<Bad1, Cmd1, Q1>>, <<Bad2, Cmd2, Q2>>, <<Bad1, Cmd2, Q2>>}

\* LocalRAGEngine::add_command_correction: the three strings are handed to
\* add_correction(original_query, incorrect_command, correct_command, ..) in
\* the order they came in
Lrag_add_command_correction(incorrect_command, correct_command, user_input, error_message, outcome) ==
    /\ sys = "lrag" /\ alive /\ Allowed(outcome)
    /\ Len(database.corrections) < MaxCorrections
    /\ \E db \in {PushCorrection(database, incorrect_command, correct_command,
                                 user_input, error_message, "CommandFix")} :
          /\ database' = db
          /\ Db_save(db, outcome)
    /\ ret' = HandlerReturn("add_command_correction",
                            Propagate(SaveResult(outcome)), outcome)
    /\ args' = [op |-> "add_command_correction"]
    /\ expect' = Append(expect, [incorrect_command |-> incorrect_command,
                                 correct_command |-> correct_command,
                                 user_input |-> user_input])
    /\ UNCHANGED <<sys, runVars, mapVars, memVars, lvsVars, ragVars, order>>

\* LocalRAGEngine::get_command_suggestions
Lrag_get_command_suggestions(failed_command) ==
    /\ sys = "lrag" /\ alive
    /\ \E keys \in Orderings(DOMAIN database.patterns) :
          ret' = Returned("get_command_suggestions",
                          Ok(GetSuggestions(database, keys, failed_command)))
    /\ args' = [op |-> "get_command_suggestions", query |-> failed_command]
    /\ UNCHANGED <<procVars, runVars, learnVars, memVars, lvsVars, ragVars,
                   expect, order>>

\* C30: a correction recorded through add_command_correction(incorrect_command,
\* correct_command, user_input, _) is stored with original_query = user_input,
\* incorrect_command = incorrect_command and correct_command = correct_command;
\* get_command_suggestions(incorrect_command, _) then contains correct_command
\* and never the user's input.
C30_CorrectionArgumentsKept ==
    sys = "lrag" =>
        /\ Len(database.corrections) = Len(expect)
        /\ \A k \in DOMAIN expect :
              /\ database.corrections[k].original_query = expect[k].user_input
              /\ database.corrections[k].incorrect_command
                    = expect[k].incorrect_command
              /\ database.corrections[k].correct_command
                    = expect[k].correct_command
        /\ ret.op = "get_command_suggestions" =>
              \A k \in DOMAIN expect :
                  expect[k].incorrect_command = args.query =>
                      /\ expect[k].correct_command \in SeqToSet(ret.val)
                      /\ expect[k].user_input \notin SeqToSet(ret.val)

\* what is stored instead: each string one field early, so the suggestion for
\* the failed command is the user's input
LragArgumentsShifted ==
    sys = "lrag" =>
        /\ Len(database.corrections) = Len(expect)
        /\ \A k \in DOMAIN expect :
              /\ database.corrections[k].original_query
                    = expect[k].incorrect_command
              /\ database.corrections[k].incorrect_command
                    = expect[k].correct_command
              /\ database.corrections[k].correct_command = expect[k].user_input
        /\ ret.op = "get_command_suggestions" =>
              \A k \in DOMAIN expect :
                  expect[k].incorrect_command = args.query =>
                      expect[k].user_input \in SeqToSet(ret.val)

----------------------------------------------------------------------------
(* Specifications *)

\* the state of the parts a run does not exercise
InitRest ==
    /\ threads = [t \in Threads |-> Idle]
    /\ lock = Unlocked
    /\ lin = EmptyMap

NoChunking ==
    /\ cd_start = 0
    /\ cd_chunks = <<>>

NoEmbed ==
    /\ seed = [p \in Procs |-> 0]
    /\ embedded = EmptyMap
    /\ succeeded = FALSE
    /\ NoChunking

InitRun ==
    /\ sources = <<>>
    /\ InitRest
    /\ NoEmbed

InitBase ==
    /\ alive = TRUE
    /\ disk = Absent
    /\ ret = NoCall
    /\ faults = 0
    /\ crash = NoCrash
    /\ wrote = "none"
    /\ corrections = EmptyMap
    /\ loaded = EmptyMap
    /\ lastAdded = EmptyMap
    /\ database = LearningDatabase_new
    /\ documents = EmptyMap
    /\ connected = FALSE
    /\ expect = EmptyMap
    /\ order = <<>>
    /\ lvs_documents = <<>>
    /\ rag_config = RAGConfig_default
    /\ collection = {}
    /\ initialized = FALSE
    /\ args = NoArgs

InitCommon == InitBase /\ InitRun

NextMap ==
    \/ Cli_new
    \/ \E q \in SimilarQueries, t \in SimilarThresholds : Cli_find_similar(q, t)
    \/ \E call \in CliCalls, o \in WriteOutcomes :
          Cli_add_correction(call[1], call[2], call[3], o)
    \/ \E call \in CliCalls, o \in WriteOutcomes :
          Repo_save(CommandLearning(call[1], call[2], call[3]), o)

NextDb ==
    \/ Db_new
    \/ \E call \in DbCalls, o \in WriteOutcomes :
          Db_add_correction(call[1], call[2], call[3], call[4], call[5], o)
    \/ \E c \in MetricCommands, ok \in BOOLEAN, o \in WriteOutcomes :
          Db_update_success_metrics(c, ok, o)
    \/ \E f \in LookupQueries : Db_get_suggestions(f)
    \/ \E q \in LookupQueries : Db_get_learning_context(q)

InitLearn == sys \in {"cli", "repo", "db"} /\ InitCommon /\ config = IndexingConfig_default

NextLearn == NextMap \/ NextDb

SpecLearn == InitLearn /\ [][NextLearn]_vars

NextMem ==
    \/ Mem_connect
    \/ \E d \in StoreDocs : Mem_store(d)
    \/ \E b \in StoreBatches : Mem_store_batch(b)
    \/ \E q \in SearchQueries, c \in SearchConfigs : Mem_search(q, c)
    \/ \E id \in DeleteIds : Mem_delete(id)
    \/ Mem_clear
    \/ \E d \in IdxDocs : Idx_index_document(d)
    \/ \E path \in Paths, u \in Uuids : Idx_index_from_file(path, u)

InitMem == sys = "mem" /\ InitCommon /\ config \in IndexConfigs

SpecMem == InitMem /\ [][NextMem]_vars

NextLvs ==
    \/ Lvs_new
    \/ \E chunk \in LvsChunks, o \in WriteOutcomes : Lvs_index_document(chunk, o)
    \/ \E call \in LdiCalls, o \in WriteOutcomes :
          \E k \in FailPoints(call[1], call[2], MetaGuide, o) :
              Ldi_index_text_document(call[1], call[2], MetaGuide, k, o)

InitLvs == sys = "lvs" /\ InitCommon /\ config = IndexingConfig_default

SpecLvs == InitLvs /\ [][NextLvs]_vars

\* both document stores
InitDocs == InitMem \/ InitLvs

NextDocs == NextMem \/ NextLvs

SpecDocs == InitDocs /\ [][NextDocs]_vars

\* everything that saves to a file
InitSave == sys \in {"cli", "repo", "db", "lvs"} /\ InitCommon
            /\ config = IndexingConfig_default

NextSave == NextLearn \/ NextLvs

SpecSave == InitSave /\ [][NextSave]_vars

InitAnalyze ==
    /\ InitRun
    /\ sys = "analyze"
    /\ alive = TRUE /\ disk = Absent /\ ret = NoCall /\ faults = 0
    /\ crash = NoCrash /\ wrote = "none"
    /\ corrections = EmptyMap /\ loaded = EmptyMap /\ lastAdded = EmptyMap
    /\ database = LearningDatabase_new
    /\ documents = EmptyMap /\ connected = FALSE /\ expect = EmptyMap
    /\ order = <<>>
    /\ lvs_documents = <<>>
    /\ rag_config = RAGConfig_default /\ collection = {} /\ initialized = FALSE
    /\ config = IndexingConfig_default
    /\ \E m \in ErrorMessages \cup FailureMessages :
          args = [op |-> "analyze_error", error_message |-> m]

NextAnalyze == Db_analyze_error \/ Db_analyze_failure_pattern

SpecAnalyze == InitAnalyze /\ [][NextAnalyze]_vars

NextRag ==
    \/ \E q \in RagQueries : Rag_retrieve_context(q)
    \/ \E p \in RagPrompts, q \in RagQueries : Rag_enhance_prompt(p, q)
    \/ \E c \in RagConfigs : Rag_update_config(c)
    \/ Mem_connect
    \/ Lre_initialize
    \/ \E p \in RagPrompts, q \in LreQueries : Lre_enhance_prompt(p, q)
    \/ \E q \in LreQueries : Lre_retrieve(q)

\* the engine over Qdrant is constructed on a collection that may already
\* hold points, the engine over the in-memory store on an empty store
InitRag ==
    /\ InitRun
    /\ sys \in {"rag", "lre"}
    /\ alive = TRUE /\ disk = Absent /\ ret = NoCall /\ faults = 0
    /\ crash = NoCrash /\ wrote = "none"
    /\ corrections = EmptyMap /\ loaded = EmptyMap /\ lastAdded = EmptyMap
    /\ database = LearningDatabase_new
    /\ documents = EmptyMap /\ connected = FALSE /\ expect = EmptyMap
    /\ order = <<>>
    /\ lvs_documents = <<>>
    /\ config = IndexingConfig_default
    /\ rag_config = RAGConfig_default /\ initialized = FALSE
    /\ collection \in (IF sys = "rag" THEN SUBSET RagChunks ELSE {{}})
    /\ args = NoArgs

SpecRag == InitRag /\ [][NextRag]_vars

NextBatch ==
    \/ \E urls \in UrlLists : Idx_index_from_urls(urls)
    \/ \E docs \in DocLists : Idx_index_documents(docs)
    \/ \E fetches \in [DOMAIN IbmDocs -> Fetched] :
          \E outcomes \in SaveOutcomes(fetches) :
              Ldi_index_ibm_cloud_docs(fetches, outcomes)
    \/ \E fetches \in LegacyFetches, info \in CollectionInfos :
          Leg_index_all_sources(fetches, info)

InitBatch ==
    /\ sys \in {"idx", "ldi", "legacy"}
    /\ alive = TRUE /\ disk = Absent /\ ret = NoCall /\ faults = 0
    /\ crash = NoCrash /\ wrote = "none"
    /\ corrections = EmptyMap /\ loaded = EmptyMap /\ lastAdded = EmptyMap
    /\ database = LearningDatabase_new
    /\ documents = EmptyMap /\ connected = FALSE /\ expect = EmptyMap
    /\ order = <<>>
    /\ lvs_documents = <<>>
    /\ rag_config = RAGConfig_default /\ collection = {} /\ initialized = FALSE
    /\ config \in (IF sys = "idx" THEN IndexConfigs ELSE {IndexingConfig_default})
    /\ sources = IF sys = "legacy" THEN DefaultReferenceSources ELSE <<>>
    /\ InitRest
    /\ NoEmbed
    /\ args = NoArgs

SpecBatch == InitBatch /\ [][NextBatch]_vars

NextConc ==
    \/ \E t \in Threads, call \in ConcCalls : Conc_acquire(t, call)
    \/ \E t \in Threads : Conc_work(t)
    \/ \E t \in Threads : Conc_release(t)

InitConc == sys = "conc" /\ InitCommon /\ config = IndexingConfig_default

SpecConc == InitConc /\ [][NextConc]_vars

NextEmbed == \E p \in Procs, text \in EmbedTexts : Lvs_embed(p, text)

InitEmbed ==
    /\ sys = "embed" /\ InitBase /\ config = IndexingConfig_default
    /\ sources = <<>> /\ InitRest
    /\ seed \in [Procs -> Seeds]
    /\ embedded = EmptyMap
    /\ succeeded = FALSE
    /\ NoChunking

SpecEmbed == InitEmbed /\ [][NextEmbed]_vars

NextChunk == Idx_chunk_iterate

InitChunk ==
    /\ sys = "chunk"
    /\ alive = TRUE /\ disk = Absent /\ ret = NoCall /\ faults = 0
    /\ crash = NoCrash /\ wrote = "none"
    /\ corrections = EmptyMap /\ loaded = EmptyMap /\ lastAdded = EmptyMap
    /\ database = LearningDatabase_new
    /\ documents = EmptyMap /\ connected = FALSE /\ expect = EmptyMap
    /\ order = <<>>
    /\ lvs_documents = <<>>
    /\ rag_config = RAGConfig_default /\ collection = {} /\ initialized = FALSE
    /\ InitRun
    /\ config \in ChunkConfigs
    /\ \E content \in ChunkContents, build \in Builds :
          args = [op |-> "chunk_document", content |-> content, build |-> build]

SpecChunk == InitChunk /\ [][NextChunk]_vars

InitSplit ==
    /\ InitRun
    /\ sys = "split"
    /\ alive = TRUE /\ disk = Absent /\ ret = NoCall /\ faults = 0
    /\ crash = NoCrash /\ wrote = "none"
    /\ corrections = EmptyMap /\ loaded = EmptyMap /\ lastAdded = EmptyMap
    /\ database = LearningDatabase_new
    /\ documents = EmptyMap /\ connected = FALSE /\ expect = EmptyMap
    /\ order = <<>>
    /\ lvs_documents = <<>>
    /\ rag_config = RAGConfig_default /\ collection = {} /\ initialized = FALSE
    /\ config = IndexingConfig_default
    /\ \E t \in SplitTexts, src \in Sources :
          args = [op |-> "chunk_text", key |-> src, text |-> t]

NextSplit == Ldi_chunk_text

SpecSplit == InitSplit /\ [][NextSplit]_vars

NextRetry ==
    \E retry_cfg \in RetryConfigs :
        \E outcomes \in [1..retry_cfg.max_attempts -> GenerationOutcomes] :
            Wx_generate_with_feedback(retry_cfg, outcomes)

InitRetry ==
    /\ sys = "retry"
    /\ InitCommon
    /\ config = IndexingConfig_default

SpecRetry == InitRetry /\ [][NextRetry]_vars

NextLrag ==
    \/ \E call \in LragCalls, e \in {None, Some(<<"e">>)},
          o \in {"ok"} \cup WriteFailures :
          Lrag_add_command_correction(call[1], call[2], call[3], e, o)
    \/ \E f \in {Bad1, Bad2, Q1} : Lrag_get_command_suggestions(f)

InitLrag == sys = "lrag" /\ InitCommon /\ config = IndexingConfig_default

SpecLrag == InitLrag /\ [][NextLrag]_vars

====
